---- MODULE Spec2Model ----
(***************************************************************************)
(* kafka-replay: the message transcoder (pkg/transcoder: EncodeWriter,     *)
(* DecodeReader, legacy.V1ReadMessage) and the replay session (pkg.Replay).*)
(*                                                                         *)
(* Byte strings are kept run-length encoded: a sequence of runs            *)
(* [b |-> byte, n |-> count], never two adjacent runs with the same byte,  *)
(* so that equal byte strings are equal values and a 100 MiB payload is    *)
(* one run. Every operator on them computes what the Go slice operation    *)
(* computes on the expanded bytes.                                         *)
(***************************************************************************)
EXTENDS Integers, Sequences, FiniteSets

\* ------------------------------------------------------------------------
\* Program constants (pkg/transcoder/constants.go)
\* ------------------------------------------------------------------------
ProtocolVersion == 2
ProtocolVersion1 == 1
HeaderVersionSize == 4
HeaderReservedSize == 16
HeaderSize == HeaderVersionSize + HeaderReservedSize
TimestampSize == 8
SizeFieldSize == 8
KeySizeFieldSize == 8
\* the sanity bound written as a literal in decoder.go:97,110 and v1.go:24
MaxFieldSize == 100 * 1024 * 1024

\* ------------------------------------------------------------------------
\* Byte strings ([]byte), run-length encoded
\* ------------------------------------------------------------------------

\* make([]byte, n) filled with byte b
BRep(b, n) == IF n = 0 THEN <<>> ELSE <<[b |-> b, n |-> n]>>

RECURSIVE BLen(_)
\* len(s)
BLen(s) == IF s = <<>> THEN 0 ELSE s[1].n + BLen(Tail(s))

\* append(s, t...): what a bytes.Buffer holds after writing t to it
BCat(s, t) ==
    IF s = <<>> THEN t
    ELSE IF t = <<>> THEN s
    ELSE IF s[Len(s)].b = t[1].b
         THEN SubSeq(s, 1, Len(s) - 1)
              \o <<[b |-> t[1].b, n |-> s[Len(s)].n + t[1].n]>>
              \o Tail(t)
         ELSE s \o t

RECURSIVE BTake(_, _)
\* s[:k], or all of s when it is shorter
BTake(s, k) ==
    IF k <= 0 \/ s = <<>> THEN <<>>
    ELSE IF s[1].n >= k THEN <<[b |-> s[1].b, n |-> k]>>
    ELSE <<s[1]>> \o BTake(Tail(s), k - s[1].n)

RECURSIVE BDrop(_, _)
\* s[k:], or nothing when s is shorter
BDrop(s, k) ==
    IF k <= 0 THEN s
    ELSE IF s = <<>> THEN <<>>
    ELSE IF s[1].n > k THEN <<[b |-> s[1].b, n |-> s[1].n - k]>> \o Tail(s)
    ELSE BDrop(Tail(s), k - s[1].n)

\* s[off : off+n]
BSlice(s, off, n) == BTake(BDrop(s, off), n)

RECURSIVE BFromSeq(_)
\* the byte string with the listed bytes
BFromSeq(q) ==
    IF q = <<>> THEN <<>>
    ELSE BCat(<<[b |-> q[1], n |-> 1]>>, BFromSeq(Tail(q)))

RECURSIVE BToSeq(_)
\* the bytes of a (short) byte string, one element each
BToSeq(s) ==
    IF s = <<>> THEN <<>>
    ELSE <<s[1].b>> \o
         (IF s[1].n = 1 THEN BToSeq(Tail(s))
          ELSE BToSeq(<<[b |-> s[1].b, n |-> s[1].n - 1]>> \o Tail(s)))

\* bytes.Contains(hay, needle): needle occurs in hay as a contiguous run.
\* On run-length encoded strings an occurrence starts inside run i of hay,
\* covers the middle runs of the needle exactly and ends inside a run.
BContains(hay, needle) ==
    LET k == Len(needle) IN
    IF k = 0 THEN TRUE
    ELSE IF k = 1
    THEN \E i \in 1..Len(hay) : hay[i].b = needle[1].b /\ hay[i].n >= needle[1].n
    ELSE \E i \in 1..(Len(hay) - k + 1) :
            /\ hay[i].b = needle[1].b /\ hay[i].n >= needle[1].n
            /\ \A j \in 2..(k - 1) : hay[i + j - 1] = needle[j]
            /\ hay[i + k - 1].b = needle[k].b /\ hay[i + k - 1].n >= needle[k].n

\* ------------------------------------------------------------------------
\* encoding/binary big-endian integers
\* ------------------------------------------------------------------------
\* the four low bytes of 0 <= u < 2^31, most significant first
Low4(u) == << (u \div 16777216) % 256, (u \div 65536) % 256, (u \div 256) % 256, u % 256 >>

\* binary.BigEndian.PutUint64(buf, uint64(v)) for an int64 v with |v| < 2^31:
\* two's complement, so a negative v is the complement of -v-1
PutUint64(v) ==
    IF v >= 0 THEN <<0, 0, 0, 0>> \o Low4(v)
    ELSE LET c == Low4(-v - 1) IN
         <<255, 255, 255, 255, 255 - c[1], 255 - c[2], 255 - c[3], 255 - c[4]>>

\* binary.BigEndian.PutUint32(buf, uint32(v)), same range
PutUint32(v) ==
    IF v >= 0 THEN Low4(v)
    ELSE LET c == Low4(-v - 1) IN <<255 - c[1], 255 - c[2], 255 - c[3], 255 - c[4]>>

\* int32(binary.BigEndian.Uint32(b)) of four bytes
Int32(b) ==
    IF b[1] < 128
    THEN b[1] * 16777216 + b[2] * 65536 + b[3] * 256 + b[4]
    ELSE -((255 - b[1]) * 16777216 + (255 - b[2]) * 65536 + (255 - b[3]) * 256 + (255 - b[4])) - 1

\* A variant with a slip: only the low 32 bits of the field are looked at.
Int64Truncated(b) == Int32(SubSeq(b, 5, 8))

\* int64(binary.BigEndian.Uint64(b)) of eight bytes. Values that do not fit
\* 32 bits saturate at the 32-bit extremes: they keep their sign and their order
\* against 0 and 100 MiB, which is all the decoder asks of a size field.
Int64(b) ==
    IF b[1] = 0 /\ b[2] = 0 /\ b[3] = 0 /\ b[4] = 0 /\ b[5] < 128
    THEN Int32(SubSeq(b, 5, 8))
    ELSE IF b[1] = 255 /\ b[2] = 255 /\ b[3] = 255 /\ b[4] = 255 /\ b[5] >= 128
    THEN Int32(SubSeq(b, 5, 8))
    ELSE IF b[1] >= 128 THEN -2147483647 - 1 ELSE 2147483647

\* ------------------------------------------------------------------------
\* Values
\* ------------------------------------------------------------------------
\* time.Time: seconds since the epoch and the nanoseconds within the second
Time(sec, nsec) == [sec |-> sec, nsec |-> nsec]
\* timestamp.Unix()
Unix(t) == t.sec
\* time.Unix(u, 0).UTC()
TimeUnix(u) == Time(u, 0)

\* a Go []byte that may be nil (the message key)
NilKey == [nil |-> TRUE, bytes |-> <<>>]
Key(bytes) == [nil |-> FALSE, bytes |-> bytes]

\* Entry (decoder.go): what Read returns
Entry(t, key, data) == [Timestamp |-> t, Key |-> key, Data |-> data]
NoEntry == Entry(Time(0, 0), NilKey, <<>>)

\* "Hello, World!" and "user-123"
HelloWorld == BFromSeq(<<72, 101, 108, 108, 111, 44, 32, 87, 111, 114, 108, 100, 33>>)
User123 == BFromSeq(<<117, 115, 101, 114, 45, 49, 50, 51>>)
\* the timestamp of the format's examples, 1706872530 s
T0 == Time(1706872530, 0)

\* the records offered to the Encoder: (timestamp, key, payload)
Records ==
    { [ts |-> T0, key |-> Key(User123), data |-> HelloWorld],
      [ts |-> T0, key |-> NilKey, data |-> HelloWorld],
      [ts |-> Time(-1, 0), key |-> NilKey, data |-> <<>>],
      [ts |-> Time(0, 500), key |-> Key(BFromSeq(<<7>>)), data |-> BFromSeq(<<0, 0>>)],
      [ts |-> T0, key |-> Key(<<>>), data |-> BFromSeq(<<1>>)],
      [ts |-> T0, key |-> NilKey, data |-> BRep(97, MaxFieldSize)],
      [ts |-> T0, key |-> Key(BFromSeq(<<7>>)), data |-> BRep(97, MaxFieldSize + 1)] }

\* time.Now(): the wall clock, c seconds after the session started
Now(c) == Time(1800000000 + c, 7)

\* ------------------------------------------------------------------------
\* Bounds of the model
\* ------------------------------------------------------------------------
\* Write calls per encoder
MaxWrites == 2
\* Read and Reset calls per decoder
MaxOps == 4
\* Reset calls per decoder
MaxResets == 1
\* entries of a hand-built container
MaxEntries == 2
\* entries of a container given to a replay
MaxReplayEntries == 2
\* calls of the consumer that a record session is given answers for
MaxStream == 3
\* Decoder.Reset calls of a looping replay
MaxCycles == 1
\* a hand-built container may be cut short at most this many bytes into its
\* last entry (into its header when it has no entry)
MaxCut == 30

\* ReadNextMessage is called at most this many times
MaxCalls == 2

\* a batch holds at most this many messages
MaxMessages == 1

VARIABLES
    file,               \* the bytes of the container file (the encoder's sink)
    hand,               \* history: how a hand-built file was laid out, [version, entries]
    encState,           \* "none", "open", "failed", "closed"; a file not written here:
                        \* "extern" (read by a decoder alone), "stored" (given to a replay)
    totalBytes,         \* EncodeWriter.totalBytes
    writes,             \* history: one [rec, ret, ok] per Write call
    decState,           \* "none", "open", "failed", "closed"
    source,             \* the bytes behind DecodeReader.reader
    pos,                \* the reader's cursor
    protocolVersion,    \* DecodeReader.protocolVersion
    dataStartOffset,    \* DecodeReader.dataStartOffset
    preserveTimestamps, \* DecodeReader.preserveTimestamps
    clock,              \* the wall clock: it has advanced by the time of the next reading
    reads,              \* history: results of the Reads since Open or the last Reset
    prev,               \* history: results of the Reads of the pass before the last Reset
    readStart,          \* history: the cursor when the last Read began
    ops,                \* history: Read and Reset calls so far
    resets,             \* history: Reset calls so far
    cfg,                \* ReplayConfig: Rate, Loop, Partition, DryRun, FindBytes
    pc,                 \* where Replay is: "idle", "top", "read", "pace", "dispatch", "done"
    cancelled,          \* ctx has been cancelled
    entry,              \* the entry the loop holds while it waits for the rate tick
    batch,              \* Replay's batch of kafka.Message
    batchBytes,         \* Replay's batchBytes
    messageCount,       \* Replay's messageCount
    dispatched,         \* history: one [msgs, ok] per Producer.WriteMessages call
    result,             \* what Replay returned: [n, err]
    passed,             \* history: the entries read that passed the filter
    dropped,            \* history: entries let go of at the rate wait
    cycles,             \* history: Decoder.Reset calls made by Replay
    inflight,           \* the batches handed to Producer.WriteMessages calls that have not returned
    resume,             \* the flushBatch call that waits for Producer.WriteMessages
    ticks,              \* history: ticks taken from the rate limiter
    via,                \* history: the return statement Replay took
    rcfg,               \* RecordConfig: Limit, FindBytes
    rpc,                \* where Record is: "idle", "top", "poll", "write", "done"
    stream,             \* what the consumer will yield, call after call
    srcPos,             \* how much of stream has been consumed
    recorded,           \* Record's messageCount
    skipped,            \* history: messages the filter of Record let go of
    writing,            \* the messages handed to Encoder.Write calls that have not returned
    rresult,            \* what Record returned: [bytes, n, err]
    command,            \* the command that runs: "none", "record", "replay"
    cpc,                \* where the command's Action is
    quiet,              \* the global --quiet flag
    opened,             \* the handles the command has acquired
    closes,             \* history: the Close calls that have reached each handle
    deferred,           \* the handles of the deferred Close calls, in the order of the defer statements
    spinner,            \* the progress spinner: "none", "running", "closed"
    cerr,               \* what the Action returned: "none" before it returns
    ctxDone,            \* the ctx given to ReadNextMessage is done
    cbatch,             \* Consumer.batch: the number of the batch, or NoBatch
    batches,            \* history: the batches ReadBatch has returned, by number
    call,               \* history: calls of ReadNextMessage so far
    rnm,                \* where ReadNextMessage is: "idle", "select", "ReadMessage"
    fetch,              \* the goroutine of each call: where it is, and its batch
    batchChan,          \* the batchChan of each call
    errChan,            \* the errChan of each call
    returns,            \* history: the error of each call that has returned
    rateLimiter         \* Replay's rateLimiter: the ticker and its interval

encVars == <<file, hand, encState, totalBytes, writes>>
decVars == <<decState, source, pos, protocolVersion, dataStartOffset, preserveTimestamps,
             clock, reads, prev, readStart, ops, resets>>
replayVars == <<cfg, pc, cancelled, entry, batch, batchBytes, messageCount, dispatched,
                result, passed, dropped, cycles, inflight, resume, ticks, via>>
recordVars == <<rcfg, rpc, stream, srcPos, recorded, skipped, writing, rresult>>
cmdVars == <<command, cpc, quiet, opened, closes, deferred, spinner, cerr>>
consVars == <<ctxDone, cbatch, batches, call, rnm, fetch, batchChan, errChan, returns>>
tickVars == <<rateLimiter>>
otherVars == <<cmdVars, consVars, tickVars>>
vars == <<encVars, decVars, replayVars, recordVars, otherVars>>

\* ------------------------------------------------------------------------
\* EncodeWriter
\* ------------------------------------------------------------------------
\* writeFileHeader: version 2 as a big-endian int32, then 16 zero bytes
writeFileHeader == BCat(BFromSeq(PutUint32(ProtocolVersion)), BRep(0, HeaderReservedSize))

\* Variants of Write with a slip in them, against which the claims are tried.
\* The entry of the version 1 writer: timestamp + size + data, no key fields.
EncodeWriteLegacy(sink, total, rec, failAt) ==
    LET n == TimestampSize + SizeFieldSize + BLen(rec.data) IN
    [sink |-> BCat(sink, BCat(BFromSeq(PutUint64(Unix(rec.ts))),
                              BCat(BFromSeq(PutUint64(BLen(rec.data))), rec.data))),
     total |-> total + n, ret |-> n, ok |-> TRUE]

\* The message size written before the key size.
EncodeWriteSwapped(sink, total, rec, failAt) ==
    LET keyBytes == IF rec.key.nil THEN <<>> ELSE rec.key.bytes
        n == TimestampSize + KeySizeFieldSize + SizeFieldSize + BLen(keyBytes) + BLen(rec.data)
    IN  [sink |-> BCat(sink, BCat(BFromSeq(PutUint64(Unix(rec.ts))),
                       BCat(BFromSeq(PutUint64(BLen(rec.data))),
                       BCat(BFromSeq(PutUint64(BLen(keyBytes))), BCat(keyBytes, rec.data))))),
         total |-> total + n, ret |-> n, ok |-> TRUE]

\* The key left out of the byte count.
EncodeWriteNoKeyCount(sink, total, rec, failAt) ==
    LET keyBytes == IF rec.key.nil THEN <<>> ELSE rec.key.bytes
        n == TimestampSize + KeySizeFieldSize + SizeFieldSize + BLen(rec.data)
    IN  [sink |-> BCat(sink, BCat(BFromSeq(PutUint64(Unix(rec.ts))),
                       BCat(BFromSeq(PutUint64(BLen(keyBytes))),
                       BCat(BFromSeq(PutUint64(BLen(rec.data))), BCat(keyBytes, rec.data))))),
         total |-> total + n, ret |-> n, ok |-> TRUE]

\* The fields written before a failure added to the running counter.
EncodeWriteCountsPartial(sink, total, rec, failAt) ==
    LET messageSize == BLen(rec.data)
        keySize == IF rec.key.nil THEN 0 ELSE BLen(rec.key.bytes)
        s1 == BCat(sink, BFromSeq(PutUint64(Unix(rec.ts))))
        s2 == BCat(s1, BFromSeq(PutUint64(keySize)))
        s3 == BCat(s2, BFromSeq(PutUint64(messageSize)))
        s4 == IF keySize > 0 THEN BCat(s3, rec.key.bytes) ELSE s3
        s5 == BCat(s4, rec.data)
        bytesWritten == TimestampSize + KeySizeFieldSize + SizeFieldSize + keySize + messageSize
        Fail(s, n) == [sink |-> s, total |-> total + n, ret |-> n, ok |-> FALSE]
    IN  IF failAt = 1 THEN Fail(sink, 0)
        ELSE IF failAt = 2 THEN Fail(s1, TimestampSize)
        ELSE IF failAt = 3 THEN Fail(s2, TimestampSize + KeySizeFieldSize)
        ELSE IF failAt = 4 /\ keySize > 0
             THEN Fail(s3, TimestampSize + KeySizeFieldSize + SizeFieldSize)
        ELSE IF failAt = 5
             THEN Fail(s4, TimestampSize + KeySizeFieldSize + SizeFieldSize + keySize)
        ELSE [sink |-> s5, total |-> total + bytesWritten, ret |-> bytesWritten, ok |-> TRUE]

\* The error of the sink at the message data dropped: Write reports success.
EncodeWriteSwallowsError(sink, total, rec, failAt) ==
    LET messageSize == BLen(rec.data)
        keySize == IF rec.key.nil THEN 0 ELSE BLen(rec.key.bytes)
        s1 == BCat(sink, BFromSeq(PutUint64(Unix(rec.ts))))
        s2 == BCat(s1, BFromSeq(PutUint64(keySize)))
        s3 == BCat(s2, BFromSeq(PutUint64(messageSize)))
        s4 == IF keySize > 0 THEN BCat(s3, rec.key.bytes) ELSE s3
        s5 == BCat(s4, rec.data)
        bytesWritten == TimestampSize + KeySizeFieldSize + SizeFieldSize + keySize + messageSize
        Fail(s, n) == [sink |-> s, total |-> total, ret |-> n, ok |-> FALSE]
    IN  IF failAt = 1 THEN Fail(sink, 0)
        ELSE IF failAt = 2 THEN Fail(s1, TimestampSize)
        ELSE IF failAt = 3 THEN Fail(s2, TimestampSize + KeySizeFieldSize)
        ELSE IF failAt = 4 /\ keySize > 0
             THEN Fail(s3, TimestampSize + KeySizeFieldSize + SizeFieldSize)
        ELSE IF failAt = 5
             THEN [sink |-> s4, total |-> total + bytesWritten, ret |-> bytesWritten, ok |-> TRUE]
        ELSE [sink |-> s5, total |-> total + bytesWritten, ret |-> bytesWritten, ok |-> TRUE]

\* EncodeWriter.Write on a sink holding `sink`, the running counter at `total`.
\* failAt names the field whose writer.Write returns an error (0: none):
\* 1 timestamp, 2 key size, 3 message size, 4 key, 5 message data.
EncodeWrite(sink, total, rec, failAt) ==
    LET messageSize == BLen(rec.data)
        keySize == IF rec.key.nil THEN 0 ELSE BLen(rec.key.bytes)
        s1 == BCat(sink, BFromSeq(PutUint64(Unix(rec.ts))))
        s2 == BCat(s1, BFromSeq(PutUint64(keySize)))
        s3 == BCat(s2, BFromSeq(PutUint64(messageSize)))
        s4 == IF keySize > 0 THEN BCat(s3, rec.key.bytes) ELSE s3
        s5 == BCat(s4, rec.data)
        bytesWritten == TimestampSize + KeySizeFieldSize + SizeFieldSize + keySize + messageSize
        Fail(s, n) == [sink |-> s, total |-> total, ret |-> n, ok |-> FALSE]
    IN  IF failAt = 1 THEN Fail(sink, 0)
        ELSE IF failAt = 2 THEN Fail(s1, TimestampSize)
        ELSE IF failAt = 3 THEN Fail(s2, TimestampSize + KeySizeFieldSize)
        ELSE IF failAt = 4 /\ keySize > 0
             THEN Fail(s3, TimestampSize + KeySizeFieldSize + SizeFieldSize)
        ELSE IF failAt = 5
             THEN Fail(s4, TimestampSize + KeySizeFieldSize + SizeFieldSize + keySize)
        ELSE [sink |-> s5, total |-> total + bytesWritten, ret |-> bytesWritten, ok |-> TRUE]

\* EncodeWriter.TotalBytes
TotalBytes == totalBytes

\* no Write of the history failed
AllOk(ws) == \A i \in 1..Len(ws) : ws[i].ok

\* NewEncodeWriter on an empty sink; the header write may fail
NewEncodeWriter ==
    /\ encState = "none"
    /\ \E ok \in BOOLEAN :
         IF ok
         THEN /\ file' = writeFileHeader
              /\ totalBytes' = HeaderSize
              /\ encState' = "open"
         ELSE /\ encState' = "failed"
              /\ UNCHANGED <<file, totalBytes>>
    /\ UNCHANGED <<hand, writes, decVars, replayVars, recordVars>>
    /\ UNCHANGED otherVars

\* EncodeWriter.Write; its caller stops writing at the first error (pkg.Record)
Write ==
    /\ encState = "open"
    /\ Len(writes) < MaxWrites
    /\ AllOk(writes)
    /\ \E rec \in Records, failAt \in 0..5 :
         LET w == EncodeWrite(file, totalBytes, rec, failAt) IN
         /\ file' = w.sink
         /\ totalBytes' = w.total
         /\ writes' = Append(writes, [rec |-> rec, ret |-> w.ret, ok |-> w.ok])
    /\ UNCHANGED <<hand, encState, decVars, replayVars, recordVars>>
    /\ UNCHANGED otherVars

\* EncodeWriter.Close
EncClose ==
    /\ encState = "open"
    /\ encState' = "closed"
    /\ UNCHANGED <<file, hand, totalBytes, writes, decVars, replayVars, recordVars>>
    /\ UNCHANGED otherVars

\* ------------------------------------------------------------------------
\* Hand-built containers
\* ------------------------------------------------------------------------
\* A hand-laid entry: the bytes of each field as a test lays them out
\* (decoder_test.go), with kOK / pOK stating whether the key size / message
\* size field holds a value in [0, 100 MiB].
Raw(sec, ksz, psz, key, data, kOK, pOK) ==
    [sec |-> sec, ksz |-> ksz, psz |-> psz, key |-> key, data |-> data, kOK |-> kOK, pOK |-> pOK]

\* 100 MiB = 0x06400000
Size100MiB == <<0, 0, 0, 0, 6, 64, 0, 0>>
Size100MiB1 == <<0, 0, 0, 0, 6, 64, 0, 1>>
SizeMinus1 == <<255, 255, 255, 255, 255, 255, 255, 255>>
SizeMinInt64 == <<128, 0, 0, 0, 0, 0, 0, 0>>
Size2Pow32 == <<0, 0, 0, 1, 0, 0, 0, 0>>
Size0 == <<0, 0, 0, 0, 0, 0, 0, 0>>
Size1 == <<0, 0, 0, 0, 0, 0, 0, 1>>
Size2 == <<0, 0, 0, 0, 0, 0, 0, 2>>

\* entries whose size fields are in bounds and match the data laid after them
WellFormed(version) ==
    IF version = ProtocolVersion1
    THEN { Raw(1706872530, Size0, Size2, <<>>, BFromSeq(<<0, 0>>), TRUE, TRUE),
           Raw(-1, Size0, Size0, <<>>, <<>>, TRUE, TRUE),
           Raw(1706872530, Size0, Size100MiB, <<>>, BRep(97, MaxFieldSize), TRUE, TRUE) }
    ELSE { Raw(1706872530, Size1, Size2, BFromSeq(<<7>>), BFromSeq(<<0, 0>>), TRUE, TRUE),
           Raw(-1, Size0, Size0, <<>>, <<>>, TRUE, TRUE),
           Raw(1706872530, Size100MiB, Size100MiB, BRep(98, MaxFieldSize), BRep(97, MaxFieldSize),
               TRUE, TRUE) }

\* entries with a size field out of bounds
Corrupt(version) ==
    IF version = ProtocolVersion1
    THEN { Raw(1706872530, Size0, Size100MiB1, <<>>, BRep(97, MaxFieldSize + 1), TRUE, FALSE),
           Raw(1706872530, Size0, SizeMinus1, <<>>, BFromSeq(<<1>>), TRUE, FALSE),
           Raw(1706872530, Size0, Size2Pow32, <<>>, BFromSeq(<<1>>), TRUE, FALSE),
           Raw(1706872530, Size0, SizeMinInt64, <<>>, <<>>, TRUE, FALSE) }
    ELSE { Raw(1706872530, Size1, Size100MiB1, BFromSeq(<<7>>), BRep(97, MaxFieldSize + 1),
               TRUE, FALSE),
           Raw(1706872530, Size100MiB1, Size1, BRep(98, MaxFieldSize + 1), BFromSeq(<<1>>),
               FALSE, TRUE),
           Raw(1706872530, SizeMinus1, Size1, <<>>, BFromSeq(<<1>>), FALSE, TRUE),
           Raw(1706872530, Size2Pow32, SizeMinInt64, <<>>, BFromSeq(<<1>>), FALSE, FALSE) }

\* header versions that are neither 1 nor 2, as the four header bytes hold them
BadVersions == { 0, 3, 258, 999, 16777218, -1 }

\* the bytes of one entry: legacy layout timestamp + size + data,
\* current layout timestamp + key size + size + key + data
RawBytes(version, e) ==
    IF version = ProtocolVersion1
    THEN BCat(BFromSeq(PutUint64(e.sec)), BCat(BFromSeq(e.psz), e.data))
    ELSE BCat(BFromSeq(PutUint64(e.sec)),
              BCat(BFromSeq(e.ksz), BCat(BFromSeq(e.psz), BCat(e.key, e.data))))

RECURSIVE BodyBytes(_, _)
BodyBytes(version, es) ==
    IF es = <<>> THEN <<>>
    ELSE BCat(RawBytes(version, es[1]), BodyBytes(version, Tail(es)))

HandBytes(h) ==
    BCat(BCat(BFromSeq(PutUint32(h.version)), BRep(0, HeaderReservedSize)),
         BodyBytes(h.version, h.entries))

SeqsUpTo(S, n) == UNION { [1..k -> S] : k \in 0..n }

\* the hand-built containers: well-formed entries, then possibly a corrupt
\* one; and headers of unsupported versions
HandFiles ==
    UNION { { [version |-> v, entries |-> es] : es \in SeqsUpTo(WellFormed(v), MaxEntries) }
            \cup
            { [version |-> v, entries |-> es \o <<c>>] :
                es \in SeqsUpTo(WellFormed(v), 1), c \in Corrupt(v) } :
            v \in {ProtocolVersion1, ProtocolVersion} }
    \cup
    { [version |-> v, entries |-> <<CHOOSE e \in WellFormed(ProtocolVersion) : e.sec # -1 /\ e.ksz = Size1>>] : v \in BadVersions }

\* where the last entry of a hand-built container starts (0: no entry)
LastStart(h) ==
    IF h.entries = <<>> THEN 0
    ELSE BLen(HandBytes([h EXCEPT !.entries = SubSeq(h.entries, 1, Len(h.entries) - 1)]))

\* what a reader may hold of the file: all of it; and of a hand-built one of
\* well-formed entries also a prefix that ends inside its last entry (a file
\* cut short)
Keeps ==
    IF encState = "extern" /\ \A i \in 1..Len(hand.entries) : hand.entries[i].kOK /\ hand.entries[i].pOK
    THEN { BLen(file) } \cup
         { k \in (IF hand.entries = <<>> THEN 0 ELSE LastStart(hand) + 1)
                    ..(LastStart(hand) + MaxCut) : k < BLen(file) }
    ELSE { BLen(file) }

\* ------------------------------------------------------------------------
\* DecodeReader
\* ------------------------------------------------------------------------
\* io.ReadFull(reader, buf) with len(buf) = n on a reader over src at cursor p:
\* nothing is read for n = 0; io.EOF when no byte is left; io.ErrUnexpectedEOF,
\* with the cursor at the end, when fewer than n bytes are left.
ReadFull(src, p, n) ==
    LET left == BLen(src) - p IN
    IF n = 0 THEN [data |-> <<>>, err |-> "nil", pos |-> p]
    ELSE IF left <= 0 THEN [data |-> <<>>, err |-> "EOF", pos |-> p]
    ELSE IF left < n THEN [data |-> <<>>, err |-> "ErrUnexpectedEOF", pos |-> BLen(src)]
    ELSE [data |-> BSlice(src, p, n), err |-> "nil", pos |-> p + n]

\* the outcomes of DecodeReader.Read
GotEntry(e, p) == [kind |-> "entry", entry |-> e, err |-> "nil", pos |-> p]
GotEOF(p) == [kind |-> "EOF", entry |-> NoEntry, err |-> "EOF", pos |-> p]
GotError(msg, p) == [kind |-> "error", entry |-> NoEntry, err |-> msg, pos |-> p]

\* the timestamp of an entry: the stored one, or the wall clock
ParseTimestamp(timestampBuf, preserve, now) ==
    IF preserve THEN TimeUnix(Int64(BToSeq(timestampBuf))) ELSE now

\* legacy.V1ReadMessage: message size (8) + message data, the timestamp
\* having been read by the caller
V1ReadMessage(src, p, timestampBuf, preserve, now) ==
    LET sz == ReadFull(src, p, SizeFieldSize) IN
    IF sz.err # "nil" THEN GotEOF(sz.pos)
    ELSE LET messageSize == Int64(BToSeq(sz.data)) IN
         IF messageSize < 0 \/ messageSize > MaxFieldSize
         THEN GotError("invalid message size", sz.pos)
         ELSE LET md == ReadFull(src, sz.pos, messageSize) IN
              IF md.err # "nil" THEN GotEOF(md.pos)
              ELSE GotEntry(Entry(ParseTimestamp(timestampBuf, preserve, now), NilKey, md.data),
                            md.pos)

\* the version 2 branch of DecodeReader.Read, after the timestamp
V2ReadMessage(src, p, timestampBuf, preserve, now) ==
    LET ks == ReadFull(src, p, KeySizeFieldSize) IN
    IF ks.err # "nil" THEN GotEOF(ks.pos)
    ELSE LET keySize == Int64(BToSeq(ks.data)) IN
         IF keySize < 0 \/ keySize > MaxFieldSize
         THEN GotError("invalid key size", ks.pos)
         ELSE LET sz == ReadFull(src, ks.pos, SizeFieldSize) IN
              IF sz.err # "nil" THEN GotEOF(sz.pos)
              ELSE LET messageSize == Int64(BToSeq(sz.data)) IN
                   IF messageSize < 0 \/ messageSize > MaxFieldSize
                   THEN GotError("invalid message size", sz.pos)
                   ELSE LET kd == ReadFull(src, sz.pos, keySize) IN
                        IF keySize > 0 /\ kd.err # "nil" THEN GotEOF(kd.pos)
                        ELSE LET key == IF keySize > 0 THEN Key(kd.data) ELSE NilKey
                                 md == ReadFull(src, kd.pos, messageSize)
                             IN  IF md.err # "nil" THEN GotEOF(md.pos)
                                 ELSE GotEntry(Entry(ParseTimestamp(timestampBuf, preserve, now),
                                                     key, md.data), md.pos)

\* Variants of Read with a slip in them.
\* A source that ends inside the timestamp reported as a read failure.
DecodeReadStrict(src, p, version, preserve, now) ==
    LET ts == ReadFull(src, p, TimestampSize) IN
    IF ts.err = "EOF" THEN GotEOF(ts.pos)
    ELSE IF ts.err # "nil" THEN GotError("failed to read timestamp", ts.pos)
    ELSE IF version = ProtocolVersion1
         THEN V1ReadMessage(src, ts.pos, ts.data, preserve, now)
         ELSE V2ReadMessage(src, ts.pos, ts.data, preserve, now)

\* The current layout applied whatever the header version.
DecodeReadV2Only(src, p, version, preserve, now) ==
    LET ts == ReadFull(src, p, TimestampSize) IN
    IF ts.err # "nil" THEN GotEOF(ts.pos)
    ELSE V2ReadMessage(src, ts.pos, ts.data, preserve, now)

\* DecodeReader.Read on a reader over src at cursor p
DecodeRead(src, p, version, preserve, now) ==
    LET ts == ReadFull(src, p, TimestampSize) IN
    IF ts.err # "nil" THEN GotEOF(ts.pos)
    ELSE IF version = ProtocolVersion1
         THEN V1ReadMessage(src, ts.pos, ts.data, preserve, now)
         ELSE V2ReadMessage(src, ts.pos, ts.data, preserve, now)

\* A variant with a slip: only the last byte of the version is compared.
readFileHeaderLax(src) ==
    LET h == ReadFull(src, 0, HeaderSize) IN
    IF h.err # "nil" THEN [ok |-> FALSE, version |-> 0, pos |-> h.pos]
    ELSE LET v == BToSeq(BTake(h.data, HeaderVersionSize))[4] IN
         [ok |-> ~(v # ProtocolVersion1 /\ v # ProtocolVersion), version |-> v, pos |-> h.pos]

\* readFileHeader: the version read from a 20-byte header, and whether it is supported
readFileHeader(src) ==
    LET h == ReadFull(src, 0, HeaderSize) IN
    IF h.err # "nil" THEN [ok |-> FALSE, version |-> 0, pos |-> h.pos]
    ELSE LET v == Int32(BToSeq(BTake(h.data, HeaderVersionSize))) IN
         [ok |-> ~(v # ProtocolVersion1 /\ v # ProtocolVersion), version |-> v, pos |-> h.pos]

\* NewDecodeReader(reader, preserveTimestamps) on a reader holding the first
\* keep bytes of the file
NewDecodeReader ==
    /\ decState = "none"
    /\ encState \in {"closed", "extern", "stored"}
    /\ AllOk(writes)
    /\ \E keep \in Keeps, preserve \in BOOLEAN :
         LET src == BTake(file, keep)
             h == readFileHeader(src)
         IN  /\ source' = src
             /\ preserveTimestamps' = preserve
             /\ pos' = h.pos
             /\ protocolVersion' = h.version
             /\ IF h.ok
                THEN decState' = "open" /\ dataStartOffset' = HeaderSize
                ELSE decState' = "failed" /\ UNCHANGED dataStartOffset
    /\ UNCHANGED <<encVars, recordVars, replayVars, clock, reads, prev, readStart, ops, resets>>
    /\ UNCHANGED otherVars

\* DecodeReader.Read
Read ==
    /\ decState = "open"
    /\ ops < MaxOps
    /\ LET r == DecodeRead(source, pos, protocolVersion, preserveTimestamps, Now(clock)) IN
         /\ pos' = r.pos
         /\ reads' = Append(reads, [kind |-> r.kind, entry |-> r.entry, err |-> r.err])
    /\ clock' = clock + 1
    /\ readStart' = pos
    /\ ops' = ops + 1
    /\ UNCHANGED <<encVars, recordVars, replayVars, decState, source, protocolVersion, dataStartOffset,
                   preserveTimestamps, prev, resets>>
    /\ UNCHANGED otherVars

\* A variant with a slip: Seek(0, io.SeekStart), the start of the file.
ResetToFileStart ==
    /\ decState = "open"
    /\ ops < MaxOps
    /\ resets < MaxResets
    /\ pos' = 0
    /\ prev' = reads
    /\ reads' = <<>>
    /\ ops' = ops + 1
    /\ resets' = resets + 1
    /\ UNCHANGED <<encVars, recordVars, replayVars, decState, source, protocolVersion, dataStartOffset,
                   preserveTimestamps, clock, readStart>>
    /\ UNCHANGED otherVars

\* DecodeReader.Reset: Seek(dataStartOffset, io.SeekStart)
Reset ==
    /\ decState = "open"
    /\ ops < MaxOps
    /\ resets < MaxResets
    /\ pos' = dataStartOffset
    /\ prev' = reads
    /\ reads' = <<>>
    /\ ops' = ops + 1
    /\ resets' = resets + 1
    /\ UNCHANGED <<encVars, recordVars, replayVars, decState, source, protocolVersion, dataStartOffset,
                   preserveTimestamps, clock, readStart>>
    /\ UNCHANGED otherVars

\* DecodeReader.Close
DecClose ==
    /\ decState = "open"
    /\ decState' = "closed"
    /\ UNCHANGED <<encVars, recordVars, replayVars, source, pos, protocolVersion, dataStartOffset,
                   preserveTimestamps, clock, reads, prev, readStart, ops, resets>>
    /\ UNCHANGED otherVars

\* ------------------------------------------------------------------------
\* Replay
\* ------------------------------------------------------------------------
\* Messages in a batch before it is written. The program batches 10000; the
\* model batches fewer, so that a container of a few entries fills a batch.
BatchSize == 2
\* payload bytes in a batch before it is written
BatchBytes == 50 * 1024 * 1024

\* ReplayConfig.Partition, a *int
NoPartition == [nil |-> TRUE, v |-> 0]
PartitionOf(v) == [nil |-> FALSE, v |-> v]

\* "Wo", the byte sequence searched for
Wo == BFromSeq(<<87, 111>>)

\* ReplayConfig, with the producer and the decoder set. FindBytes is a []byte
\* that may be nil, as the key is.
Configs ==
    [Rate : {0, 2}, Loop : BOOLEAN, Partition : {NoPartition, PartitionOf(3)},
     DryRun : BOOLEAN, FindBytes : {NilKey, Key(Wo)}]
NoConfig ==
    [Rate |-> 0, Loop |-> FALSE, Partition |-> NoPartition, DryRun |-> FALSE, FindBytes |-> NilKey]

\* the entries of the containers given to a replay: "Hello, World!" under a
\* key; two zero bytes without a key; "Wooo...", 50 MiB long, without a key
ReplayEntries ==
    { Raw(1706872530, PutUint64(8), PutUint64(13), User123, HelloWorld, TRUE, TRUE),
      Raw(-1, Size0, Size2, <<>>, BFromSeq(<<0, 0>>), TRUE, TRUE),
      Raw(1706872531, Size0, PutUint64(BatchBytes), <<>>,
          BCat(BFromSeq(<<87>>), BRep(111, BatchBytes - 1)), TRUE, TRUE) }

\* the containers given to a replay: current layout, of the entries above;
\* one whose second entry has a size out of bounds; one in the legacy layout
ReplayFiles ==
    { [version |-> ProtocolVersion, entries |-> es] : es \in SeqsUpTo(ReplayEntries, MaxReplayEntries) }
    \cup
    { [version |-> ProtocolVersion,
       entries |-> << Raw(1706872530, PutUint64(8), PutUint64(13), User123, HelloWorld, TRUE, TRUE),
                      Raw(1706872530, SizeMinus1, Size1, <<>>, BFromSeq(<<1>>), FALSE, TRUE) >>],
      [version |-> ProtocolVersion1,
       entries |-> << Raw(1706872530, Size0, PutUint64(13), <<>>, HelloWorld, TRUE, TRUE),
                      Raw(-1, Size0, Size2, <<>>, BFromSeq(<<0, 0>>), TRUE, TRUE) >>] }

\* kafka.Message built from an entry
Message(e, c) ==
    [Key |-> e.Key, Value |-> e.Data, Time |-> e.Timestamp,
     Partition |-> IF c.Partition.nil THEN 0 ELSE c.Partition.v]

\* Replay's locals that a flush touches, and the error of the last flush
Locals ==
    [batch |-> batch, batchBytes |-> batchBytes, messageCount |-> messageCount,
     dispatched |-> dispatched, err |-> "nil"]

\* A variant with a slip: the batch is kept after it has been written.
flushBatchKeep(st, c, ok) ==
    IF Len(st.batch) = 0 THEN [st EXCEPT !.err = "nil"]
    ELSE IF c.DryRun THEN [st EXCEPT !.batch = <<>>, !.batchBytes = 0, !.err = "nil"]
    ELSE IF ok
    THEN [st EXCEPT !.dispatched = Append(@, [msgs |-> st.batch, ok |-> TRUE]), !.err = "nil"]
    ELSE [st EXCEPT !.dispatched = Append(@, [msgs |-> st.batch, ok |-> FALSE]),
                    !.err = "failed to write batch to Kafka"]

\* A variant with a slip: DryRun is not looked at.
flushBatchWrites(st, c, ok) ==
    IF Len(st.batch) = 0 THEN [st EXCEPT !.err = "nil"]
    ELSE IF ok
    THEN [st EXCEPT !.dispatched = Append(@, [msgs |-> st.batch, ok |-> TRUE]),
                    !.batch = <<>>, !.batchBytes = 0, !.err = "nil"]
    ELSE [st EXCEPT !.dispatched = Append(@, [msgs |-> st.batch, ok |-> FALSE]),
                    !.err = "failed to write batch to Kafka"]

\* A variant with a slip: the error of Producer.WriteMessages is dropped.
flushBatchGoesOn(st, c, ok) ==
    IF Len(st.batch) = 0 THEN [st EXCEPT !.err = "nil"]
    ELSE IF c.DryRun THEN [st EXCEPT !.batch = <<>>, !.batchBytes = 0, !.err = "nil"]
    ELSE [st EXCEPT !.dispatched = Append(@, [msgs |-> st.batch, ok |-> ok]),
                    !.batch = <<>>, !.batchBytes = 0, !.err = "nil"]

\* A variant with a slip: a dry run leaves the batch as it is.
flushBatchKeepsDry(st, c, ok) ==
    IF Len(st.batch) = 0 THEN [st EXCEPT !.err = "nil"]
    ELSE IF c.DryRun THEN [st EXCEPT !.err = "nil"]
    ELSE IF ok
    THEN [st EXCEPT !.dispatched = Append(@, [msgs |-> st.batch, ok |-> TRUE]),
                    !.batch = <<>>, !.batchBytes = 0, !.err = "nil"]
    ELSE [st EXCEPT !.dispatched = Append(@, [msgs |-> st.batch, ok |-> FALSE]),
                    !.err = "failed to write batch to Kafka"]

\* flushBatch: nothing for an empty batch; in a dry run the batch is cleared
\* and nothing is written; else Producer.WriteMessages(ctx, batch...), which
\* succeeds (ok) or fails, and on failure the batch is left as it is
flushBatch(st, c, ok) ==
    IF Len(st.batch) = 0 THEN [st EXCEPT !.err = "nil"]
    ELSE IF c.DryRun THEN [st EXCEPT !.batch = <<>>, !.batchBytes = 0, !.err = "nil"]
    ELSE IF ok
    THEN [st EXCEPT !.dispatched = Append(@, [msgs |-> st.batch, ok |-> TRUE]),
                    !.batch = <<>>, !.batchBytes = 0, !.err = "nil"]
    ELSE [st EXCEPT !.dispatched = Append(@, [msgs |-> st.batch, ok |-> FALSE]),
                    !.err = "failed to write batch to Kafka"]

\* A variant with a slip: the length of the batch is not looked at.
dispatchesEmpty(st, c) == ~c.DryRun

\* flushBatch reaches Producer.WriteMessages: the batch is not empty and
\* this is no dry run
dispatches(st, c) == Len(st.batch) # 0 /\ ~c.DryRun

\* A variant with a slip: the message is appended and not counted.
appendMessageUncounted(st, e, c) ==
    [st EXCEPT !.batch = Append(@, Message(e, c)),
               !.batchBytes = @ + BLen(e.Data)]

\* the message is built and appended, and the counters move
appendMessage(st, e, c) ==
    [st EXCEPT !.batch = Append(@, Message(e, c)),
               !.batchBytes = @ + BLen(e.Data),
               !.messageCount = @ + 1]

\* A variant with a slip: the bytes of the batch are not looked at.
fullCountOnly(st) == Len(st.batch) >= BatchSize

\* the batch has reached the size or the byte limit
full(st) == Len(st.batch) >= BatchSize \/ st.batchBytes >= BatchBytes

\* A variant with a slip: Loop is not looked at.
shouldLoopNever(c) == FALSE

\* at the end of the file the decoder is reset and the loop goes on
shouldLoop(c) == c.Loop

\* A variant with a slip: no rate wait in a dry run.
ratedNotDry(c) == c.Rate > 0 /\ ~c.DryRun

\* a rate limiter is set up, and every iteration waits for it
rated(c) == c.Rate > 0

\* time.Second, in nanoseconds
Second == 1000000000

\* interval := time.Second / time.Duration(cfg.Rate): the division of int64
\* truncates
interval(rate) == Second \div rate

\* rateLimiter is nil
NoTicker == [running |-> FALSE, interval |-> 0]

\* time.NewTicker(d), which panics unless d > 0
NewTicker(d) == [running |-> TRUE, interval |-> d]

\* the rates given to Replay: none, small ones, and those around one per
\* nanosecond, up to the largest int of a 32-bit build
Rates == {0, 1, 2, 3, 10, 1000, 1000000, 999999999, 1000000000, 1000000001,
          2000000000, 2147483647}

\* the locals become st
Store(st) ==
    /\ batch' = st.batch
    /\ batchBytes' = st.batchBytes
    /\ messageCount' = st.messageCount
    /\ dispatched' = st.dispatched

\* return messageCount, err; how: the return statement taken
Return(st, err, how, site) ==
    /\ pc' = "done"
    /\ result' = [n |-> st.messageCount, err |-> err]
    /\ via' = [how |-> how, site |-> site]

\* A variant with a slip: the return after the cancellation carries no error.
ctxErrNone(done) == "nil"

\* ctx.Err(): nil until ctx is done
ctxErr(done) == IF done THEN "context canceled" ELSE "nil"

\* What follows a flushBatch that was called at site and has left the locals
\* as f, the cursor being p and the calls under way fl: its error is returned;
\* or, without one, the context's error where a cancellation was seen
\* ("top", "pace", "readerr"), the next iteration after a full batch
\* ("limit"), and at the end of the file ("eof") the next cycle after
\* Decoder.Reset, or the last flushBatch ("end") and the return after it.
AfterFlush(f, site, p, fl) ==
    /\ Store(f)
    /\ IF f.err # "nil"
       THEN /\ Return(f, f.err, "flush", site)
            /\ pos' = p /\ inflight' = fl /\ resume' = "none"
            /\ UNCHANGED cycles
       ELSE IF site \in {"top", "pace", "readerr"}
       THEN /\ Return(f, ctxErr(cancelled), "cancelled", site)
            /\ pos' = p /\ inflight' = fl /\ resume' = "none"
            /\ UNCHANGED cycles
       ELSE IF site = "limit"
       THEN /\ pc' = "top"
            /\ pos' = p /\ inflight' = fl /\ resume' = "none"
            /\ UNCHANGED <<result, via, cycles>>
       ELSE IF site = "eof" /\ shouldLoop(cfg)
       THEN /\ cycles < MaxCycles \/ cancelled
            /\ pos' = dataStartOffset
            /\ cycles' = cycles + 1
            /\ pc' = "top"
            /\ inflight' = fl /\ resume' = "none"
            /\ UNCHANGED <<result, via>>
       ELSE IF site = "eof" /\ dispatches(f, cfg)
       THEN /\ inflight' = Append(fl, f.batch)
            /\ resume' = "end"
            /\ pc' = "dispatch"
            /\ pos' = p
            /\ UNCHANGED <<result, via, cycles>>
       ELSE /\ Return(f, "nil", "end", site)
            /\ pos' = p /\ inflight' = fl /\ resume' = "none"
            /\ UNCHANGED cycles

\* A variant with a slip: Producer.WriteMessages is started and not waited
\* for; the loop goes on with an empty batch.
CallFlushNoWait(st, site, p) ==
    IF dispatches(st, cfg)
    THEN \E f \in {[st EXCEPT !.batch = <<>>, !.batchBytes = 0, !.err = "nil"]} :
            AfterFlush(f, site, p, Append(inflight, st.batch))
    ELSE \E f \in {flushBatch(st, cfg, TRUE)} : AfterFlush(f, site, p, inflight)

\* flushBatch is called at site with the locals st: Producer.WriteMessages
\* is called and is under way, or flushBatch returns at once
CallFlush(st, site, p) ==
    IF dispatches(st, cfg)
    THEN /\ Store(st)
         /\ inflight' = Append(inflight, st.batch)
         /\ resume' = site
         /\ pc' = "dispatch"
         /\ pos' = p
         /\ UNCHANGED <<result, via, cycles>>
    ELSE \E f \in {flushBatch(st, cfg, TRUE)} : AfterFlush(f, site, p, inflight)

\* Replay(ctx, cfg) is called with a producer and an open decoder
Replay ==
    /\ pc = "idle"
    /\ encState = "stored"
    /\ decState = "open"
    /\ IF rated(cfg)
       THEN IF interval(cfg.Rate) > 0
            THEN /\ rateLimiter' = NewTicker(interval(cfg.Rate))
                 /\ pc' = "top"
            ELSE /\ rateLimiter' = NoTicker
                 /\ pc' = "panic"
       ELSE /\ rateLimiter' = NoTicker
            /\ pc' = "top"
    /\ UNCHANGED <<encVars, recordVars, decVars, cfg, cancelled, entry, batch, batchBytes, messageCount,
                   dispatched, result, passed, dropped, cycles, inflight, resume, ticks, via>>
    /\ UNCHANGED <<cmdVars, consVars>>

\* ctx is cancelled while Replay runs
Cancel ==
    /\ pc \in {"top", "read", "pace", "dispatch"}
    /\ ~cancelled
    /\ cancelled' = TRUE
    /\ UNCHANGED <<encVars, recordVars, decVars, cfg, pc, entry, batch, batchBytes, messageCount,
                   dispatched, result, passed, dropped, cycles, inflight, resume, ticks, via>>
    /\ UNCHANGED otherVars

\* the top of the loop: select on ctx.Done() with a default
ReplayCheck ==
    /\ pc = "top"
    /\ IF cancelled
       THEN CallFlush(Locals, "top", pos)
       ELSE /\ pc' = "read"
            /\ UNCHANGED <<batch, batchBytes, messageCount, dispatched, result, via, pos,
                           cycles, inflight, resume>>
    /\ UNCHANGED <<encVars, recordVars, decState, source, protocolVersion, dataStartOffset,
                   preserveTimestamps, clock, reads, prev, readStart, ops, resets,
                   cfg, cancelled, entry, passed, dropped, ticks>>
    /\ UNCHANGED otherVars

\* the message of entry e is appended; a full batch is flushed
AppendEntry(e, p) ==
    \E a \in {appendMessage(Locals, e, cfg)} :
        IF full(a)
        THEN CallFlush(a, "limit", p)
        ELSE /\ Store(a)
             /\ pc' = "top"
             /\ pos' = p
             /\ UNCHANGED <<result, via, cycles, inflight, resume>>

\* A variant with a slip: an entry is kept only when its payload starts with
\* FindBytes.
filteredOutUnlessPrefix(c, data) ==
    ~c.FindBytes.nil /\ BTake(data, BLen(c.FindBytes.bytes)) # c.FindBytes.bytes

\* FindBytes is set and the payload does not contain it: the entry is left out
filteredOut(c, data) == ~c.FindBytes.nil /\ ~BContains(data, c.FindBytes.bytes)

\* Decoder.Read returns and the iteration goes on up to the rate wait, or to
\* a call of Producer.WriteMessages, or to its end
ReplayRead ==
    /\ pc = "read"
    /\ clock' = clock + 1
    /\ \E r \in {DecodeRead(source, pos, protocolVersion, preserveTimestamps, Now(clock))} :
         CASE r.kind = "EOF" ->
                /\ CallFlush(Locals, "eof", r.pos)
                /\ UNCHANGED <<entry, passed>>
           [] r.kind = "error" ->
                /\ UNCHANGED <<entry, passed>>
                /\ IF cancelled
                   THEN CallFlush(Locals, "readerr", r.pos)
                   ELSE /\ Return(Locals, r.err, "error", "read")
                        /\ pos' = r.pos
                        /\ UNCHANGED <<batch, batchBytes, messageCount, dispatched, cycles,
                                       inflight, resume>>
           [] r.kind = "entry" ->
                IF filteredOut(cfg, r.entry.Data)
                THEN /\ pc' = "top"
                     /\ pos' = r.pos
                     /\ UNCHANGED <<entry, passed, batch, batchBytes, messageCount, dispatched,
                                    result, via, cycles, inflight, resume>>
                ELSE /\ passed' = Append(passed, r.entry)
                     /\ IF rated(cfg)
                        THEN /\ entry' = r.entry
                             /\ pc' = "pace"
                             /\ pos' = r.pos
                             /\ UNCHANGED <<batch, batchBytes, messageCount, dispatched,
                                            result, via, cycles, inflight, resume>>
                        ELSE /\ AppendEntry(r.entry, r.pos)
                             /\ UNCHANGED entry
    /\ UNCHANGED <<encVars, recordVars, decState, source, protocolVersion, dataStartOffset,
                   preserveTimestamps, reads, prev, readStart, ops, resets,
                   cfg, cancelled, dropped, ticks>>
    /\ UNCHANGED otherVars

\* the rate wait ends with a tick of the rate limiter: the iteration goes on
ReplayTick ==
    /\ pc = "pace"
    /\ ticks' = ticks + 1
    /\ AppendEntry(entry, pos)
    /\ entry' = NoEntry
    /\ UNCHANGED <<encVars, recordVars, decState, source, protocolVersion, dataStartOffset,
                   preserveTimestamps, clock, reads, prev, readStart, ops, resets,
                   cfg, cancelled, passed, dropped>>
    /\ UNCHANGED otherVars

\* A variant with a slip: the rate wait receives from the ticker only.
doneAtWaitIgnored(done) == FALSE

\* the select of the rate wait has a case for ctx.Done()
doneAtWait(done) == done

\* the rate wait ends with ctx.Done(): the entry read is let go of
ReplayPaceCancelled ==
    /\ pc = "pace"
    /\ doneAtWait(cancelled)
    /\ CallFlush(Locals, "pace", pos)
    /\ entry' = NoEntry
    /\ dropped' = dropped + 1
    /\ UNCHANGED <<encVars, recordVars, decState, source, protocolVersion, dataStartOffset,
                   preserveTimestamps, clock, reads, prev, readStart, ops, resets,
                   cfg, cancelled, passed, ticks>>
    /\ UNCHANGED otherVars

\* Producer.WriteMessages returns, with or without an error, and flushBatch
\* with it
DispatchReturn ==
    /\ pc = "dispatch"
    /\ \E ok \in BOOLEAN :
         \E f \in {flushBatch(Locals, cfg, ok)} :
            AfterFlush(f, resume, pos, Tail(inflight))
    /\ UNCHANGED <<encVars, recordVars, decState, source, protocolVersion, dataStartOffset,
                   preserveTimestamps, clock, reads, prev, readStart, ops, resets,
                   cfg, cancelled, entry, passed, dropped, ticks>>
    /\ UNCHANGED otherVars

\* no replay is under way
ReplayIdle ==
    /\ cfg = NoConfig
    /\ pc = "idle"
    /\ cancelled = FALSE
    /\ entry = NoEntry
    /\ batch = <<>>
    /\ batchBytes = 0
    /\ messageCount = 0
    /\ dispatched = <<>>
    /\ result = [n |-> 0, err |-> "nil"]
    /\ passed = <<>>
    /\ dropped = 0
    /\ cycles = 0
    /\ inflight = <<>>
    /\ resume = "none"
    /\ ticks = 0
    /\ via = [how |-> "none", site |-> "none"]

\* ------------------------------------------------------------------------
\* Record
\* ------------------------------------------------------------------------
\* what a call of Consumer.ReadNextMessage yields: a message; io.EOF, no
\* message for now; an error
Yield(kind, rec) == [kind |-> kind, rec |-> rec]
NoRec == [ts |-> Time(0, 0), key |-> NilKey, data |-> <<>>]
NoDataYet == Yield("nodata", NoRec)
SourceError == Yield("error", NoRec)
SourceYields ==
    { Yield("message", [ts |-> T0, key |-> Key(User123), data |-> HelloWorld]),
      Yield("message", [ts |-> Time(-1, 0), key |-> NilKey, data |-> BFromSeq(<<0, 0>>)]),
      NoDataYet,
      SourceError }
Streams == SeqsUpTo(SourceYields, MaxStream)

\* RecordConfig, with the consumer and the output set
RecordConfigs == [Limit : {0, 1, 2}, FindBytes : {NilKey, Key(Wo)}]
NoRecordConfig == [Limit |-> 0, FindBytes |-> NilKey]

\* the next answer of the consumer; when the stream is idle there is no
\* message for now
NextYield == IF srcPos < Len(stream) THEN stream[srcPos + 1] ELSE NoDataYet

\* no filter is set, or the payload contains the bytes searched for
found(data, find) == find.nil \/ BContains(data, find.bytes)

\* A variant with a slip: the limit is passed by one before the loop ends.
limitReachedLate(c, n) == c.Limit > 0 /\ n > c.Limit

\* the limit of messages is reached
limitReached(c, n) == c.Limit > 0 /\ n >= c.Limit

\* Record returns: the encoder is closed
RecordReturn(bytes, n, err) ==
    /\ rpc' = "done"
    /\ rresult' = [bytes |-> bytes, n |-> n, err |-> err]
    /\ encState' = "closed"

\* Record(ctx, cfg) is called with a consumer and an output: the encoder
\* writes the header
Record ==
    /\ rpc = "idle"
    /\ encState = "none"
    /\ stream # <<>> \/ rcfg # NoRecordConfig
    /\ file' = writeFileHeader
    /\ totalBytes' = HeaderSize
    /\ encState' = "open"
    /\ rpc' = "top"
    /\ UNCHANGED <<hand, writes, decVars, replayVars, rcfg, stream, srcPos, recorded, skipped,
                   writing, rresult>>
    /\ UNCHANGED otherVars

\* ctx is cancelled while Record runs
RecordCancel ==
    /\ rpc \in {"top", "poll", "write"}
    /\ ~cancelled
    /\ cancelled' = TRUE
    /\ UNCHANGED <<encVars, decVars, recordVars, cfg, pc, entry, batch, batchBytes,
                   messageCount, dispatched, result, passed, dropped, cycles, inflight,
                   resume, ticks, via>>
    /\ UNCHANGED otherVars

\* the top of the loop: the limit, then select on ctx.Done() with a default
RecordCheck ==
    /\ rpc = "top"
    /\ IF limitReached(rcfg, recorded)
       THEN RecordReturn(totalBytes, recorded, "nil")
       ELSE IF cancelled
       THEN RecordReturn(totalBytes, recorded, "context canceled")
       ELSE rpc' = "poll" /\ UNCHANGED <<rresult, encState>>
    /\ UNCHANGED <<file, hand, totalBytes, writes, decVars, replayVars, rcfg, stream, srcPos,
                   recorded, skipped, writing>>
    /\ UNCHANGED otherVars

\* A variant with a slip: io.EOF is taken for an error like any other.
endOfBatchIsError(y) == FALSE

\* err == io.EOF: the batch of the consumer is exhausted, the loop continues
endOfBatch(y) == y.kind = "nodata"

\* Consumer.ReadNextMessage returns what the stream holds next
RecordPoll ==
    /\ rpc = "poll"
    /\ srcPos' = IF srcPos < Len(stream) THEN srcPos + 1 ELSE srcPos
    /\ \E y \in {NextYield} :
         IF y.kind # "message"
         THEN IF endOfBatch(y)
              THEN /\ rpc' = "top"
                   /\ UNCHANGED <<rresult, encState, skipped, writing>>
              ELSE /\ RecordReturn(totalBytes, recorded,
                                   IF cancelled THEN "context canceled" ELSE "consumer error")
                   /\ UNCHANGED <<skipped, writing>>
         ELSE IF found(y.rec.data, rcfg.FindBytes)
              THEN /\ writing' = Append(writing, y.rec)
                   /\ rpc' = "write"
                   /\ UNCHANGED <<rresult, encState, skipped>>
              ELSE /\ skipped' = skipped + 1
                   /\ rpc' = "top"
                   /\ UNCHANGED <<rresult, encState, writing>>
    /\ UNCHANGED <<file, hand, totalBytes, writes, decVars, replayVars, rcfg, stream, recorded>>
    /\ UNCHANGED otherVars

\* A variant with a slip: ReadNextMessage waits for the fetch only.
doneAtPollIgnored(done) == FALSE

\* the select of ReadNextMessage has a case for ctx.Done()
doneAtPoll(done) == done

\* Consumer.ReadNextMessage returns the context's error
RecordPollCancelled ==
    /\ rpc = "poll"
    /\ doneAtPoll(cancelled)
    /\ RecordReturn(totalBytes, recorded, "context canceled")
    /\ UNCHANGED <<file, hand, totalBytes, writes, decVars, replayVars, rcfg, stream, srcPos,
                   recorded, skipped, writing>>
    /\ UNCHANGED otherVars

\* Encoder.Write of the message returns
RecordWrite ==
    /\ rpc = "write"
    /\ \E failAt \in 0..5 :
         \E w \in {EncodeWrite(file, totalBytes, Head(writing), failAt)} :
            /\ file' = w.sink
            /\ totalBytes' = w.total
            /\ writes' = Append(writes, [rec |-> Head(writing), ret |-> w.ret, ok |-> w.ok])
            /\ IF w.ok
               THEN /\ recorded' = recorded + 1
                    /\ rpc' = "top"
                    /\ UNCHANGED <<rresult, encState>>
               ELSE /\ RecordReturn(w.total, recorded, "write error")
                    /\ UNCHANGED recorded
    /\ writing' = Tail(writing)
    /\ UNCHANGED <<hand, decVars, replayVars, rcfg, stream, srcPos, skipped>>
    /\ UNCHANGED otherVars

\* no record session is under way
RecordIdle ==
    /\ rcfg = NoRecordConfig
    /\ rpc = "idle"
    /\ stream = <<>>
    /\ srcPos = 0
    /\ recorded = 0
    /\ skipped = 0
    /\ writing = <<>>
    /\ rresult = [bytes |-> 0, n |-> 0, err |-> "nil"]

\* ------------------------------------------------------------------------
\* The commands: the Action of the record command and of the replay command,
\* the handles they acquire and the Close calls that reach them
\* ------------------------------------------------------------------------
\* record acquires the consumer and the output file, replay the input file
\* and the producer
Handles == {"consumer", "fileWriter", "file", "producer"}

\* what pkg.Record and pkg.Replay hand back to the command
RecordErrors == {"nil", "context canceled", "consumer error", "write error", "encoder error"}
ReplayErrors == {"nil", "context canceled", "decoder error", "producer error"}

\* a Close call reaches the handle h
Close(cl, h) == [cl EXCEPT ![h] = @ + 1]

\* writeCloser.Close: the writer that CountingWriter wraps is the *os.File,
\* which is an io.Closer, and is closed
writeCloserClose(cl) == Close(cl, "fileWriter")

\* EncodeWriter.Close: the writer of the record command is CountingWriter's
\* writeCloser, which is an io.Closer, and is closed
EncodeWriterClose(cl) == writeCloserClose(cl)

\* Record closes its Encoder when it returns; it has none when
\* NewEncodeWriter failed on the header
RecordCloses(cl, err) == IF err = "encoder error" THEN cl ELSE EncodeWriterClose(cl)

\* Replay closes neither cfg.Decoder nor cfg.Producer
ReplayCloses(cl, err) == cl

\* a handle is acquired and its Close is deferred
Acquire(h) ==
    /\ opened' = opened \cup {h}
    /\ deferred' = Append(deferred, h)

\* return err: the deferred calls are run next, if there are any
Leave(err) ==
    /\ cerr' = err
    /\ cpc' = IF deferred' = <<>> THEN "returned" ELSE "defers"

\* the Action of the record command starts: util.ResolveBrokers, the check
\* of --group with --offset, and with --timeout the deferred cancel
RecordCommand ==
    /\ command = "none"
    /\ command' = "record"
    /\ \E ok \in BOOLEAN, timeout \in BOOLEAN :
          IF ok
          THEN /\ deferred' = IF timeout THEN <<"cancel">> ELSE <<>>
               /\ cpc' = "consumer"
               /\ cerr' = cerr
          ELSE /\ deferred' = <<>>
               /\ Leave("flag error")
    /\ UNCHANGED <<quiet, opened, closes, spinner>>
    /\ UNCHANGED <<encVars, decVars, replayVars, recordVars, consVars, tickVars>>

\* kafka.NewConsumer, and defer consumer.Close()
RecordNewConsumer ==
    /\ command = "record"
    /\ cpc = "consumer"
    /\ \E ok \in BOOLEAN :
          IF ok
          THEN /\ Acquire("consumer")
               /\ cpc' = "create"
               /\ cerr' = cerr
          ELSE /\ UNCHANGED <<opened, deferred>>
               /\ Leave("consumer error")
    /\ UNCHANGED <<command, quiet, closes, spinner>>
    /\ UNCHANGED <<encVars, decVars, replayVars, recordVars, consVars, tickVars>>

\* os.Create(output), defer fileWriter.Close(), and the spinner unless quiet
RecordCreate ==
    /\ command = "record"
    /\ cpc = "create"
    /\ \E ok \in BOOLEAN :
          IF ok
          THEN /\ Acquire("fileWriter")
               /\ spinner' = IF quiet THEN "none" ELSE "running"
               /\ cpc' = "session"
               /\ cerr' = cerr
          ELSE /\ UNCHANGED <<opened, deferred, spinner>>
               /\ Leave("create error")
    /\ UNCHANGED <<command, quiet, closes>>
    /\ UNCHANGED <<encVars, decVars, replayVars, recordVars, consVars, tickVars>>

\* pkg.Record runs and returns; the spinner is closed when it returns nil
RecordSession ==
    /\ command = "record"
    /\ cpc = "session"
    /\ UNCHANGED <<command, quiet, opened, deferred>>
    /\ \E err \in RecordErrors :
          /\ closes' = RecordCloses(closes, err)
          /\ spinner' = IF err = "nil" /\ spinner = "running" THEN "closed" ELSE spinner
          /\ Leave(err)
    /\ UNCHANGED <<encVars, decVars, replayVars, recordVars, consVars, tickVars>>

\* the Action of the replay command starts: util.ResolveBrokers
ReplayCommand ==
    /\ command = "none"
    /\ command' = "replay"
    /\ UNCHANGED <<quiet, opened, closes, deferred, spinner>>
    /\ \E ok \in BOOLEAN :
          IF ok
          THEN /\ cpc' = "open"
               /\ cerr' = cerr
          ELSE Leave("flag error")
    /\ UNCHANGED <<encVars, decVars, replayVars, recordVars, consVars, tickVars>>

\* os.Open(input), defer file.Close(), and the spinner unless quiet
ReplayOpen ==
    /\ command = "replay"
    /\ cpc = "open"
    /\ \E ok \in BOOLEAN :
          IF ok
          THEN /\ Acquire("file")
               /\ spinner' = IF quiet THEN "none" ELSE "running"
               /\ cpc' = "decoder"
               /\ cerr' = cerr
          ELSE /\ UNCHANGED <<opened, deferred, spinner>>
               /\ Leave("open error")
    /\ UNCHANGED <<command, quiet, closes>>
    /\ UNCHANGED <<encVars, decVars, replayVars, recordVars, consVars, tickVars>>

\* transcoder.NewDecodeReader on the counting reader; when it has read the
\* header, kafka.NewProducer and defer producer.Close()
ReplayNewDecoder ==
    /\ command = "replay"
    /\ cpc = "decoder"
    /\ \E ok \in BOOLEAN :
          IF ok
          THEN /\ Acquire("producer")
               /\ cpc' = "session"
               /\ cerr' = cerr
          ELSE /\ UNCHANGED <<opened, deferred>>
               /\ Leave("decoder error")
    /\ UNCHANGED <<command, quiet, closes, spinner>>
    /\ UNCHANGED <<encVars, decVars, replayVars, recordVars, consVars, tickVars>>

\* pkg.Replay runs and returns; the spinner is closed when it returns nil
ReplaySession ==
    /\ command = "replay"
    /\ cpc = "session"
    /\ UNCHANGED <<command, quiet, opened, deferred>>
    /\ \E err \in ReplayErrors :
          /\ closes' = ReplayCloses(closes, err)
          /\ spinner' = IF err = "nil" /\ spinner = "running" THEN "closed" ELSE spinner
          /\ Leave(err)
    /\ UNCHANGED <<encVars, decVars, replayVars, recordVars, consVars, tickVars>>

\* the Action returns: the deferred call made last runs first
RunDeferred ==
    /\ cpc = "defers"
    /\ deferred # <<>>
    /\ \E h \in {deferred[Len(deferred)]} :
          closes' = IF h \in Handles THEN Close(closes, h) ELSE closes
    /\ deferred' = SubSeq(deferred, 1, Len(deferred) - 1)
    /\ cpc' = IF deferred' = <<>> THEN "returned" ELSE "defers"
    /\ UNCHANGED <<command, quiet, opened, spinner, cerr>>
    /\ UNCHANGED <<encVars, decVars, replayVars, recordVars, consVars, tickVars>>

\* no command runs
CommandIdle ==
    /\ command = "none"
    /\ cpc = "idle"
    /\ opened = {}
    /\ closes = [h \in Handles |-> 0]
    /\ deferred = <<>>
    /\ spinner = "none"
    /\ cerr = "none"

\* ------------------------------------------------------------------------
\* The consumer: Consumer.ReadNextMessage, the goroutine it starts to fetch
\* a batch, and the batches that kafka.Conn.ReadBatch hands out
\* ------------------------------------------------------------------------
\* c.batch = nil
NoBatch == 0

\* a batch as ReadBatch returns it: left messages to read, then io.EOF, or
\* the error it carries; open until Batch.Close
NewBatch(left, bad) == [open |-> TRUE, left |-> left, bad |-> bad]

\* the goroutine of a call that has not started one
NoFetch == [at |-> "none", batch |-> NoBatch]

\* ReadNextMessage is called: with no current batch it makes batchChan and
\* errChan, both of capacity one, starts the goroutine and waits in the
\* select; with a current batch it goes on to read from it
ReadNextMessage ==
    /\ rnm = "idle"
    /\ call < MaxCalls
    /\ call' = call + 1
    /\ IF cbatch = NoBatch
       THEN /\ fetch' = [fetch EXCEPT ![call'] = [at |-> "ReadBatch", batch |-> NoBatch]]
            /\ rnm' = "select"
       ELSE /\ fetch' = fetch
            /\ rnm' = "ReadMessage"
    /\ UNCHANGED <<ctxDone, cbatch, batches, batchChan, errChan, returns>>
    /\ UNCHANGED <<encVars, decVars, replayVars, recordVars, cmdVars, tickVars>>

\* the goroutine of call i: c.conn.ReadBatch returns a batch
FetchReadBatch ==
    /\ \E i \in 1..MaxCalls :
          /\ fetch[i].at = "ReadBatch"
          /\ \E left \in 0..MaxMessages, bad \in BOOLEAN :
                batches' = Append(batches, NewBatch(left, bad))
          /\ fetch' = [fetch EXCEPT ![i] = [at |-> "select", batch |-> Len(batches')]]
    /\ UNCHANGED <<ctxDone, cbatch, call, rnm, batchChan, errChan, returns>>
    /\ UNCHANGED <<encVars, decVars, replayVars, recordVars, cmdVars, tickVars>>

\* the goroutine of call i: its select. batchChan has room, so the send is
\* ready; once ctx is done the receive from ctx.Done() is ready too, and
\* the select takes either: on ctx.Done() the batch is closed and ctx.Err()
\* goes to errChan, else the batch goes to batchChan
FetchSelect ==
    /\ \E i \in 1..MaxCalls :
          /\ fetch[i].at = "select"
          /\ \/ /\ ctxDone
                /\ batches' = [batches EXCEPT ![fetch[i].batch].open = FALSE]
                /\ errChan' = [errChan EXCEPT ![i] = Append(@, "context canceled")]
                /\ batchChan' = batchChan
             \/ /\ batchChan' = [batchChan EXCEPT ![i] = Append(@, fetch[i].batch)]
                /\ UNCHANGED <<batches, errChan>>
          /\ fetch' = [fetch EXCEPT ![i] = [at |-> "exit", batch |-> NoBatch]]
    /\ UNCHANGED <<ctxDone, cbatch, call, rnm, returns>>
    /\ UNCHANGED <<encVars, decVars, replayVars, recordVars, cmdVars, tickVars>>

\* ReadNextMessage returns err
RnmReturn(err) ==
    /\ rnm' = "idle"
    /\ returns' = Append(returns, err)

\* the select of ReadNextMessage takes a case that is ready: ctx.Done(),
\* an error from errChan, or the batch from batchChan, which becomes c.batch
ReadNextMessageSelect ==
    /\ rnm = "select"
    /\ \/ /\ ctxDone
          /\ RnmReturn("context canceled")
          /\ UNCHANGED <<cbatch, batchChan, errChan>>
       \/ /\ errChan[call] # <<>>
          /\ errChan' = [errChan EXCEPT ![call] = Tail(@)]
          /\ RnmReturn(Head(errChan[call]))
          /\ UNCHANGED <<cbatch, batchChan>>
       \/ /\ batchChan[call] # <<>>
          /\ batchChan' = [batchChan EXCEPT ![call] = Tail(@)]
          /\ cbatch' = Head(batchChan[call])
          /\ rnm' = "ReadMessage"
          /\ UNCHANGED <<errChan, returns>>
    /\ UNCHANGED <<ctxDone, batches, call, fetch>>
    /\ UNCHANGED <<encVars, decVars, replayVars, recordVars, cmdVars, tickVars>>

\* c.batch.ReadMessage(): a message, whose value is returned; the error the
\* batch carries; or io.EOF, and then the batch is closed and c.batch is nil
BatchReadMessage ==
    /\ rnm = "ReadMessage"
    /\ IF batches[cbatch].bad
       THEN /\ RnmReturn("consumer error")
            /\ UNCHANGED <<cbatch, batches>>
       ELSE IF batches[cbatch].left > 0
       THEN /\ batches' = [batches EXCEPT ![cbatch].left = @ - 1]
            /\ RnmReturn("nil")
            /\ cbatch' = cbatch
       ELSE /\ batches' = [batches EXCEPT ![cbatch].open = FALSE]
            /\ cbatch' = NoBatch
            /\ RnmReturn("EOF")
    /\ UNCHANGED <<ctxDone, call, fetch, batchChan, errChan>>
    /\ UNCHANGED <<encVars, decVars, replayVars, recordVars, cmdVars, tickVars>>

\* ctx is cancelled
CtxCancel ==
    /\ ~ctxDone
    /\ ctxDone' = TRUE
    /\ UNCHANGED <<cbatch, batches, call, rnm, fetch, batchChan, errChan, returns>>
    /\ UNCHANGED <<encVars, decVars, replayVars, recordVars, cmdVars, tickVars>>

\* a consumer that has not been called
ConsumerIdle ==
    /\ ctxDone = FALSE
    /\ cbatch = NoBatch
    /\ batches = <<>>
    /\ call = 0
    /\ rnm = "idle"
    /\ fetch = [i \in 1..MaxCalls |-> NoFetch]
    /\ batchChan = [i \in 1..MaxCalls |-> <<>>]
    /\ errChan = [i \in 1..MaxCalls |-> <<>>]
    /\ returns = <<>>

\* no command and no consumer is at work, and there is no rate limiter
OthersIdle ==
    /\ CommandIdle
    /\ quiet = FALSE
    /\ ConsumerIdle
    /\ rateLimiter = NoTicker

\* ------------------------------------------------------------------------
\* Specification: an encoder writes a container, a decoder reads it back
\* ------------------------------------------------------------------------
DecInit ==
    /\ decState = "none"
    /\ source = <<>>
    /\ pos = 0
    /\ protocolVersion = 0
    /\ dataStartOffset = 0
    /\ preserveTimestamps = FALSE
    /\ clock = 0
    /\ reads = <<>>
    /\ prev = <<>>
    /\ readStart = 0
    /\ ops = 0
    /\ resets = 0

Init ==
    /\ file = <<>>
    /\ hand = [version |-> ProtocolVersion, entries |-> <<>>]
    /\ encState = "none"
    /\ totalBytes = 0
    /\ writes = <<>>
    /\ DecInit
    /\ ReplayIdle
    /\ RecordIdle
    /\ OthersIdle

Next ==
    \/ NewEncodeWriter
    \/ Write
    \/ EncClose
    \/ NewDecodeReader
    \/ Read
    \/ Reset
    \/ DecClose

Spec == Init /\ [][Next]_vars

\* ------------------------------------------------------------------------
\* Specification: a decoder reads a hand-built container, possibly cut short
\* ------------------------------------------------------------------------
InitFile ==
    /\ \E h \in HandFiles : hand = h /\ file = HandBytes(h)
    /\ encState = "extern"
    /\ totalBytes = 0
    /\ writes = <<>>
    /\ DecInit
    /\ ReplayIdle
    /\ RecordIdle
    /\ OthersIdle

NextFile ==
    \/ NewDecodeReader
    \/ Read
    \/ Reset
    \/ DecClose

SpecFile == InitFile /\ [][NextFile]_vars

\* ------------------------------------------------------------------------
\* Specification: a container is opened and replayed
\* ------------------------------------------------------------------------
InitReplay ==
    /\ \E h \in ReplayFiles : hand = h /\ file = HandBytes(h)
    /\ encState = "stored"
    /\ totalBytes = 0
    /\ writes = <<>>
    /\ DecInit
    /\ cfg \in Configs
    /\ pc = "idle"
    /\ cancelled = FALSE
    /\ entry = NoEntry
    /\ batch = <<>>
    /\ batchBytes = 0
    /\ messageCount = 0
    /\ dispatched = <<>>
    /\ result = [n |-> 0, err |-> "nil"]
    /\ passed = <<>>
    /\ dropped = 0
    /\ cycles = 0
    /\ inflight = <<>>
    /\ resume = "none"
    /\ ticks = 0
    /\ via = [how |-> "none", site |-> "none"]
    /\ RecordIdle
    /\ OthersIdle

NextReplay ==
    \/ NewDecodeReader
    \/ Replay
    \/ Cancel
    \/ ReplayCheck
    \/ ReplayRead
    \/ ReplayTick
    \/ ReplayPaceCancelled
    \/ DispatchReturn

SpecReplay == InitReplay /\ [][NextReplay]_vars

\* Decoder.Read on a file returns. This is weak fairness of ReplayRead,
\* stated on the states: a step of ReplayRead leaves pc = "read", and at
\* pc = "read" it is enabled unless the bound of the cycles holds it back.
ReadReturns == []<>~(pc = "read" /\ (~cfg.Loop \/ cycles < MaxCycles \/ cancelled))

\* The same, with the scheduling the code has: the loop goes on by itself
\* (the check of ctx, Decoder.Read on a file), the select of the rate wait
\* takes ctx.Done() when it is ready, and Producer.WriteMessages, which is
\* given ctx, returns. The rate limiter's tick is not promised, and neither
\* is the cancellation.
SpecReplayFair ==
    /\ InitReplay
    /\ [][NextReplay]_vars
    /\ WF_vars(ReplayCheck)
    /\ ReadReturns
    /\ WF_vars(ReplayPaceCancelled)
    /\ WF_vars(DispatchReturn)

\* ------------------------------------------------------------------------
\* Specification: a session, either a replay of a container or a record of
\* what a consumer yields
\* ------------------------------------------------------------------------
InitRecord ==
    /\ file = <<>>
    /\ hand = [version |-> ProtocolVersion, entries |-> <<>>]
    /\ encState = "none"
    /\ totalBytes = 0
    /\ writes = <<>>
    /\ DecInit
    /\ ReplayIdle
    /\ rcfg \in RecordConfigs
    /\ rpc = "idle"
    /\ stream \in Streams
    /\ srcPos = 0
    /\ recorded = 0
    /\ skipped = 0
    /\ writing = <<>>
    /\ rresult = [bytes |-> 0, n |-> 0, err |-> "nil"]
    /\ OthersIdle

InitSessions == InitReplay \/ InitRecord

NextSessions ==
    \/ NewDecodeReader
    \/ Replay
    \/ Cancel
    \/ ReplayCheck
    \/ ReplayRead
    \/ ReplayTick
    \/ ReplayPaceCancelled
    \/ DispatchReturn
    \/ Record
    \/ RecordCancel
    \/ RecordCheck
    \/ RecordPoll
    \/ RecordPollCancelled
    \/ RecordWrite

SpecSessions == InitSessions /\ [][NextSessions]_vars

\* ------------------------------------------------------------------------
\* Specification: a record session, with the scheduling the code has: the
\* loop goes on by itself, Consumer.ReadNextMessage returns (with a message,
\* io.EOF or an error; once ctx is done, with its error), and Encoder.Write
\* returns. The cancellation is not promised.
\* ------------------------------------------------------------------------
NextRecord ==
    \/ Record
    \/ RecordCancel
    \/ RecordCheck
    \/ RecordPoll
    \/ RecordPollCancelled
    \/ RecordWrite

SpecRecord == InitRecord /\ [][NextRecord]_vars

\* Encoder.Write returns. This is weak fairness of RecordWrite, stated on the
\* states: RecordWrite is enabled exactly at rpc = "write", and each of its
\* steps leaves it.
WriteReturns == []<>(rpc # "write")

\* The same, but the fetch of the consumer need not return: only the select
\* on ctx.Done() of ReadNextMessage is promised.
SpecRecordBlocked ==
    /\ InitRecord
    /\ [][NextRecord]_vars
    /\ WF_vars(Record)
    /\ WF_vars(RecordCheck)
    /\ WF_vars(RecordPollCancelled)
    /\ WriteReturns

SpecRecordFair ==
    /\ InitRecord
    /\ [][NextRecord]_vars
    /\ WF_vars(Record)
    /\ WF_vars(RecordCheck)
    /\ WF_vars(RecordPoll)
    /\ WriteReturns

\* ------------------------------------------------------------------------
\* Specification: the record command or the replay command runs, from its
\* flags to its return
\* ------------------------------------------------------------------------
InitCommands ==
    /\ file = <<>>
    /\ hand = [version |-> ProtocolVersion, entries |-> <<>>]
    /\ encState = "none"
    /\ totalBytes = 0
    /\ writes = <<>>
    /\ DecInit
    /\ ReplayIdle
    /\ RecordIdle
    /\ CommandIdle
    /\ quiet \in BOOLEAN
    /\ ConsumerIdle
    /\ rateLimiter = NoTicker

NextCommands ==
    \/ RecordCommand
    \/ RecordNewConsumer
    \/ RecordCreate
    \/ RecordSession
    \/ ReplayCommand
    \/ ReplayOpen
    \/ ReplayNewDecoder
    \/ ReplaySession
    \/ RunDeferred

SpecCommands == InitCommands /\ [][NextCommands]_vars

\* ------------------------------------------------------------------------
\* Specification: a consumer is polled, call after call, and ctx may be
\* cancelled at any moment
\* ------------------------------------------------------------------------
InitConsumer ==
    /\ file = <<>>
    /\ hand = [version |-> ProtocolVersion, entries |-> <<>>]
    /\ encState = "none"
    /\ totalBytes = 0
    /\ writes = <<>>
    /\ DecInit
    /\ ReplayIdle
    /\ RecordIdle
    /\ CommandIdle
    /\ quiet = FALSE
    /\ ConsumerIdle
    /\ rateLimiter = NoTicker

NextConsumer ==
    \/ ReadNextMessage
    \/ FetchReadBatch
    \/ FetchSelect
    \/ ReadNextMessageSelect
    \/ BatchReadMessage
    \/ CtxCancel

SpecConsumer == InitConsumer /\ [][NextConsumer]_vars

\* ------------------------------------------------------------------------
\* Specification: a container of two records is replayed at one of Rates
\* ------------------------------------------------------------------------
InitTicker ==
    /\ hand = [version |-> ProtocolVersion,
               entries |-> << Raw(1706872530, PutUint64(8), PutUint64(13), User123, HelloWorld, TRUE, TRUE),
                              Raw(-1, Size0, Size2, <<>>, BFromSeq(<<0, 0>>), TRUE, TRUE) >>]
    /\ file = HandBytes(hand)
    /\ encState = "stored"
    /\ totalBytes = 0
    /\ writes = <<>>
    /\ DecInit
    /\ cfg \in [Rate : Rates, Loop : {FALSE}, Partition : {NoPartition},
                DryRun : BOOLEAN, FindBytes : {NilKey}]
    /\ pc = "idle"
    /\ cancelled = FALSE
    /\ entry = NoEntry
    /\ batch = <<>>
    /\ batchBytes = 0
    /\ messageCount = 0
    /\ dispatched = <<>>
    /\ result = [n |-> 0, err |-> "nil"]
    /\ passed = <<>>
    /\ dropped = 0
    /\ cycles = 0
    /\ inflight = <<>>
    /\ resume = "none"
    /\ ticks = 0
    /\ via = [how |-> "none", site |-> "none"]
    /\ RecordIdle
    /\ OthersIdle

NextTicker ==
    \/ NewDecodeReader
    \/ Replay
    \/ ReplayCheck
    \/ ReplayRead
    \/ ReplayTick
    \/ DispatchReturn

SpecTicker == InitTicker /\ [][NextTicker]_vars

\* ========================================================================
\* Properties of the transcoder
\* ========================================================================
KeyLen(k) == IF k.nil THEN 0 ELSE BLen(k.bytes)
LastRead == reads[Len(reads)]
\* the decoder reads a whole container written here, from its first record
ReadingBack == decState \in {"open", "closed"} /\ encState = "closed" /\ AllOk(writes)
WholeSeconds(ws) == \A i \in 1..Len(ws) : ws[i].rec.ts.nsec = 0
WithinBounds(ws) ==
    \A i \in 1..Len(ws) : KeyLen(ws[i].rec.key) <= MaxFieldSize /\ BLen(ws[i].rec.data) <= MaxFieldSize
\* a key as the container can hold it: an empty key is no key
StoredKey(k) == IF KeyLen(k) = 0 THEN NilKey ELSE k

\* C1 as stated: with timestamps preserved, the Reads after Open return the
\* written records (whole-second timestamp, any key, any payload) in order
\* with equal timestamp, key and payload, and the next Read is EndOfContainer.
C1_RoundTripAnyRecord ==
    (ReadingBack /\ preserveTimestamps /\ resets = 0 /\ WholeSeconds(writes)) =>
        \A i \in 1..Len(reads) :
            IF i <= Len(writes)
            THEN /\ reads[i].kind = "entry"
                 /\ reads[i].entry = Entry(writes[i].rec.ts, writes[i].rec.key, writes[i].rec.data)
            ELSE reads[i].kind = "EOF"

\* C1 amended: the same for records whose key and payload are at most
\* 100 MiB, a present but empty key being read back as absent.
C1_RoundTrip ==
    (ReadingBack /\ preserveTimestamps /\ resets = 0 /\ WholeSeconds(writes)
        /\ WithinBounds(writes)) =>
        \A i \in 1..Len(reads) :
            IF i <= Len(writes)
            THEN /\ reads[i].kind = "entry"
                 /\ reads[i].entry =
                        Entry(writes[i].rec.ts, StoredKey(writes[i].rec.key), writes[i].rec.data)
            ELSE reads[i].kind = "EOF"

C1_Witness ==
    /\ ReadingBack /\ preserveTimestamps /\ resets = 0
    /\ WholeSeconds(writes) /\ WithinBounds(writes)
    /\ Len(writes) = 2 /\ Len(reads) = 3
    /\ writes[1].rec.key = Key(User123)
    /\ writes[2].rec.key = Key(<<>>)
    /\ LastRead.kind = "EOF"

\* ---- hand-built containers ---------------------------------------------
WellFormedUpTo(n) == \A i \in 1..n : hand.entries[i].kOK /\ hand.entries[i].pOK
CutShort == BLen(source) < BLen(file)
\* the entries that are whole in the source: all but the last of a file cut short
WholeEntries == IF CutShort THEN Len(hand.entries) - 1 ELSE Len(hand.entries)
ReadingHand ==
    /\ encState = "extern"
    /\ decState \in {"open", "closed"}
    /\ hand.version \in {ProtocolVersion1, ProtocolVersion}

RECURSIVE HandStart(_)
HandStart(i) ==
    IF i = 1 THEN HeaderSize
    ELSE HandStart(i - 1) + BLen(RawBytes(hand.version, hand.entries[i - 1]))

\* C3: in both layouts a key size or message size field outside
\* [0, 100 MiB] makes Read fail with a size error and no entry, the cursor
\* left right after the offending field (no variable-length data read);
\* fields of exactly 100 MiB are accepted and the entry is returned.
C3_SizeBounds ==
    (ReadingHand /\ ~CutShort /\ resets = 0) =>
        \A i \in 1..Len(reads) :
            (i <= Len(hand.entries) /\ WellFormedUpTo(i - 1)) =>
                LET e == hand.entries[i]
                    v2 == hand.version = ProtocolVersion
                IN  IF e.kOK /\ e.pOK
                    THEN /\ reads[i].kind = "entry"
                         /\ reads[i].entry.Data = e.data
                         /\ reads[i].entry.Key = IF v2 /\ e.key # <<>> THEN Key(e.key) ELSE NilKey
                    ELSE /\ reads[i].kind = "error"
                         /\ reads[i].entry = NoEntry
                         /\ reads[i].err = IF v2 /\ ~e.kOK THEN "invalid key size"
                                           ELSE "invalid message size"
                         /\ i = Len(reads) =>
                              pos = HandStart(i) + TimestampSize +
                                    (IF v2 /\ e.kOK THEN KeySizeFieldSize + SizeFieldSize
                                     ELSE SizeFieldSize)

C3_Witness ==
    /\ ReadingHand /\ ~CutShort /\ resets = 0
    /\ hand.version = ProtocolVersion
    /\ Len(hand.entries) = 2 /\ Len(reads) = 2
    /\ reads[1].kind = "entry"
    /\ BLen(reads[1].entry.Data) = MaxFieldSize /\ KeyLen(reads[1].entry.Key) = MaxFieldSize
    /\ reads[2].kind = "error" /\ reads[2].err = "invalid key size"
    /\ hand.entries[2].ksz = SizeMinus1

\* the data laid after a size field is as long as the field says
LaidOut(e) == BLen(e.data) < 2147483647 /\ e.psz = PutUint64(BLen(e.data))
LegacyContainer ==
    /\ encState = "extern" /\ decState # "none"
    /\ hand.version = ProtocolVersion1
    /\ ~CutShort
    /\ \A i \in 1..Len(hand.entries) : LaidOut(hand.entries[i])

\* C4 as stated: every container of version 1 in the legacy layout opens,
\* and the Reads return each record's timestamp and payload, key absent.
C4_LegacyAnyDecoder ==
    (LegacyContainer /\ resets = 0) =>
        /\ decState # "failed"
        /\ \A i \in 1..Len(reads) :
              i <= Len(hand.entries) =>
                 /\ reads[i].kind = "entry"
                 /\ reads[i].entry =
                        Entry(TimeUnix(hand.entries[i].sec), NilKey, hand.entries[i].data)

\* C4 amended: for payloads of at most 100 MiB, the container opens and the
\* Reads return each record's payload with the key absent, and the record's
\* timestamp when the decoder preserves timestamps (the wall clock otherwise).
C4_Legacy ==
    (LegacyContainer /\ resets = 0 /\ WellFormedUpTo(Len(hand.entries))) =>
        /\ decState # "failed"
        /\ \A i \in 1..Len(reads) :
              i <= Len(hand.entries) =>
                 /\ reads[i].kind = "entry"
                 /\ reads[i].entry.Key = NilKey
                 /\ reads[i].entry.Data = hand.entries[i].data
                 /\ preserveTimestamps =>
                       reads[i].entry.Timestamp = TimeUnix(hand.entries[i].sec)

C4_Witness ==
    /\ LegacyContainer /\ resets = 0 /\ WellFormedUpTo(Len(hand.entries))
    /\ preserveTimestamps
    /\ Len(hand.entries) = 2 /\ Len(reads) = 3
    /\ reads[1].kind = "entry" /\ reads[1].entry.Data = BFromSeq(<<0, 0>>)
    /\ reads[2].kind = "entry" /\ reads[2].entry.Timestamp = Time(-1, 0)
    /\ reads[3].kind = "EOF"

\* C5: a decoder is open only over a source of at least 20 bytes whose
\* header version is 1 or 2; over any other source NewDecodeReader fails
\* and there is no decoder to read from.
C5_OpenChecksHeader ==
    (encState = "extern" /\ decState # "none") =>
        IF BLen(source) >= HeaderSize /\ hand.version \in {ProtocolVersion1, ProtocolVersion}
        THEN decState \in {"open", "closed"}
        ELSE decState = "failed" /\ reads = <<>>

C5_Witness ==
    /\ encState = "extern" /\ decState = "failed"
    /\ BLen(source) > HeaderSize
    /\ hand.version = 16777218

\* ---- Reset -------------------------------------------------------------
\* C6 as stated: after Reset the cursor is at byte 20 and the Reads return
\* again, identically, what the Reads of the pass before returned.
C6_ResetIdentical ==
    (ReadingBack /\ resets > 0 /\ Len(writes) > 0) =>
        /\ reads = <<>> => pos = HeaderSize
        /\ \A i \in 1..Len(reads) : i <= Len(prev) => reads[i] = prev[i]

\* C6 amended: after Reset the cursor is at byte 20 and the Reads return
\* again the records of the pass before, with identical key and payload,
\* and identical timestamp when the decoder preserves timestamps.
C6_Reset ==
    (ReadingBack /\ resets > 0 /\ Len(writes) > 0) =>
        /\ reads = <<>> => pos = HeaderSize
        /\ \A i \in 1..Len(reads) :
              /\ i <= Len(prev) =>
                    /\ reads[i].kind = prev[i].kind
                    /\ reads[i].entry.Key = prev[i].entry.Key
                    /\ reads[i].entry.Data = prev[i].entry.Data
                    /\ preserveTimestamps => reads[i] = prev[i]
              /\ (i = 1 /\ WithinBounds(SubSeq(writes, 1, 1))) =>
                    /\ reads[1].kind = "entry"
                    /\ reads[1].entry.Data = writes[1].rec.data

C6_Witness ==
    /\ ReadingBack /\ resets = 1 /\ preserveTimestamps
    /\ Len(writes) = 1 /\ Len(prev) = 2
    /\ prev[1].kind = "entry" /\ prev[2].kind = "EOF"
    /\ Len(reads) = 1 /\ reads[1] = prev[1]

\* ---- Encoder -----------------------------------------------------------
\* where record i of the written container starts
RECURSIVE EntryStart(_)
EntryStart(i) ==
    IF i = 1 THEN 20
    ELSE EntryStart(i - 1) + 24 + KeyLen(writes[i - 1].rec.key) + BLen(writes[i - 1].rec.data)

Written == encState \in {"open", "closed"} /\ AllOk(writes)

RECURSIVE SumRet(_)
SumRet(ws) == IF ws = <<>> THEN 0 ELSE ws[1].ret + SumRet(Tail(ws))

HandKey(e) == IF hand.version = ProtocolVersion1 \/ e.ksz = Size0 THEN NilKey ELSE Key(e.key)
\* the entry's payload contains FindBytes, or no FindBytes is set
Passes(e) == cfg.FindBytes.nil \/ BContains(e.data, cfg.FindBytes.bytes)
RECURSIVE Passing(_)
\* the entries of es that pass the filter, in order
Passing(es) ==
    IF es = <<>> THEN <<>>
    ELSE (IF Passes(es[1]) THEN <<es[1]>> ELSE <<>>) \o Passing(Tail(es))
RECURSIVE Concat(_)
\* the batches handed to Producer.WriteMessages, one after the other
Concat(log) == IF log = <<>> THEN <<>> ELSE log[1].msgs \o Concat(Tail(log))
\* Replay has returned
Returned == pc = "done"

\* C9: when a Replay with Loop off and DryRun off returns without error, the
\* batches handed to the producer, in call order, hold the container's
\* filter-passing records in container order, each once (its key and payload,
\* its stored timestamp when the decoder preserves timestamps, the partition
\* of the configuration), every call succeeded, and the count returned is
\* the number of those records.
C9_OrderedOnce ==
    (Returned /\ ~cfg.Loop /\ ~cfg.DryRun /\ result.err = "nil") =>
        LET sent == Concat(dispatched)
            want == Passing(hand.entries)
        IN  /\ \A i \in 1..Len(dispatched) : dispatched[i].ok /\ dispatched[i].msgs # <<>>
            /\ Len(sent) = Len(want)
            /\ \A i \in 1..Len(want) :
                 /\ sent[i].Key = HandKey(want[i])
                 /\ sent[i].Value = want[i].data
                 /\ preserveTimestamps => sent[i].Time = TimeUnix(want[i].sec)
                 /\ sent[i].Partition = (IF cfg.Partition.nil THEN 0 ELSE cfg.Partition.v)
            /\ result.n = Len(want)

\* a replay with a filter set returned without error after two batches
C9_Witness ==
    /\ Returned /\ ~cfg.Loop /\ ~cfg.DryRun /\ result.err = "nil"
    /\ ~cfg.FindBytes.nil
    /\ Len(dispatched) = 2
    /\ result.n = 2
    /\ dispatched[1].msgs # dispatched[2].msgs

\* C10 as stated: in a dry run the producer is never called, and the count
\* returned is the number of filter-passing records read.
C10_DryRunCountsAllRead ==
    cfg.DryRun =>
        /\ dispatched = <<>>
        /\ Returned => result.n = Len(passed)

\* C10: in a dry run the producer is never called, whichever flush is taken;
\* every filter-passing record read is counted, but for one held at the rate
\* wait: it is not counted yet, and it is never counted when the wait ends
\* with the cancellation. The count returned is the count kept.
C10_DryRun ==
    cfg.DryRun =>
        /\ dispatched = <<>>
        /\ messageCount = Len(passed) - dropped - (IF pc = "pace" THEN 1 ELSE 0)
        /\ dropped \in {0, 1}
        /\ dropped = 1 => Returned /\ cfg.Rate > 0 /\ result.err = "context canceled"
        /\ Returned => result.n = messageCount

\* a paced dry run went through a container of two records, one batch full,
\* and returned 2 without a call of the producer
C10_Witness ==
    /\ cfg.DryRun /\ cfg.Rate > 0 /\ ~cfg.Loop
    /\ Returned /\ result = [n |-> 2, err |-> "nil"]
    /\ Len(passed) = 2
    /\ batch = <<>>
    /\ dispatched = <<>>

\* ------------------------------------------------------------------------
\* the messages among the first n answers of the consumer whose payload
\* contains (has = TRUE) or does not contain (has = FALSE) the bytes searched for
Yielded(n, has) ==
    Cardinality({i \in 1..n : /\ stream[i].kind = "message"
                              /\ BContains(stream[i].rec.data, rcfg.FindBytes.bytes) = has})
\* the calls of Encoder.Write that succeeded
WritesOk == Cardinality({i \in 1..Len(writes) : writes[i].ok})
\* Record has returned
RecordReturned == rpc = "done"

\* C11: with a find filter F set, a session processes the records whose
\* payload contains F and no other. Replay: every record that got past the
\* filter contains F, only those are counted, batched and handed to the
\* producer, and when the container was read to its end (Loop off, no
\* error) the records past the filter are the container's records that
\* contain F, all of them, in order, and the count returned is their number.
\* Record: every message handed to Encoder.Write contains F, the messages
\* consumed that contain F were all handed to it, the others were all
\* skipped, the count is the number of writes that succeeded, it never
\* exceeds the limit L, and a session that ends without error has written
\* exactly L messages that contain F, however many were skipped.
C11_FindFilter ==
    /\ ~cfg.FindBytes.nil =>
          /\ \A i \in 1..Len(passed) : BContains(passed[i].Data, cfg.FindBytes.bytes)
          /\ messageCount <= Len(passed)
          /\ \A i \in 1..Len(batch) : BContains(batch[i].Value, cfg.FindBytes.bytes)
          /\ \A i \in 1..Len(dispatched) : \A k \in 1..Len(dispatched[i].msgs) :
                BContains(dispatched[i].msgs[k].Value, cfg.FindBytes.bytes)
          /\ (Returned /\ ~cfg.Loop /\ result.err = "nil") =>
                LET want == Passing(hand.entries)
                IN  /\ Len(passed) = Len(want)
                    /\ \A i \in 1..Len(want) : passed[i].Data = want[i].data
                    /\ result.n = Len(want)
    /\ ~rcfg.FindBytes.nil =>
          /\ \A i \in 1..Len(writes) : BContains(writes[i].rec.data, rcfg.FindBytes.bytes)
          /\ \A i \in 1..Len(writing) : BContains(writing[i].data, rcfg.FindBytes.bytes)
          /\ Len(writes) + Len(writing) = Yielded(srcPos, TRUE)
          /\ skipped = Yielded(srcPos, FALSE)
          /\ recorded = WritesOk
          /\ rcfg.Limit > 0 => recorded <= rcfg.Limit
          /\ (RecordReturned /\ rresult.err = "nil") =>
                rcfg.Limit > 0 /\ rresult.n = rcfg.Limit /\ WritesOk = rcfg.Limit

\* a replay with a filter set read a container of two records to its end:
\* the one that contains the bytes was sent and counted, the other was not
C11_Witness ==
    /\ ~cfg.FindBytes.nil /\ ~cfg.Loop /\ ~cfg.DryRun
    /\ Len(hand.entries) = 2
    /\ Returned /\ result = [n |-> 1, err |-> "nil"]
    /\ Len(passed) = 1
    /\ Len(dispatched) = 1 /\ Len(dispatched[1].msgs) = 1

\* a record session with a filter and a limit of 1 skipped a message and
\* ended when the one message that contains the bytes was written
C11_RecordSkips ==
    /\ ~rcfg.FindBytes.nil /\ rcfg.Limit = 1
    /\ RecordReturned /\ rresult.n = 1 /\ rresult.err = "nil"
    /\ skipped >= 1

\* ------------------------------------------------------------------------
\* a call of Producer.WriteMessages has failed
DispatchFailed == \E i \in 1..Len(dispatched) : ~dispatched[i].ok

\* C12: outside a dry run, the first call of Producer.WriteMessages that
\* fails ends Replay with that error: the failed call is the last call made,
\* none is under way, Replay has returned the error of the sink with the
\* count kept; once a call has failed no step makes another call, reads the
\* decoder or moves its position; and the messages of all calls, the failed
\* one included, are the filter-passing records in container order (cycle
\* after cycle when Loop is set), so no batch that was sent is sent again.
C12_DispatchFailure ==
    /\ [](DispatchFailed =>
            /\ ~dispatched[Len(dispatched)].ok
            /\ \A i \in 1..(Len(dispatched) - 1) : dispatched[i].ok
            /\ ~cfg.DryRun
            /\ Returned /\ via.how = "flush"
            /\ result = [n |-> messageCount, err |-> "failed to write batch to Kafka"]
            /\ inflight = <<>>
            /\ LET sent == Concat(dispatched)
                   want == Passing(hand.entries)
               IN  \A i \in 1..Len(sent) :
                      sent[i].Value = want[((i - 1) % Len(want)) + 1].data)
    /\ [][DispatchFailed => UNCHANGED <<dispatched, inflight, pos, clock, pc, result>>]_vars

\* a first batch was sent, the second one failed, and Replay returned the
\* error of the sink with both records counted
C12_Witness ==
    /\ Len(dispatched) = 2
    /\ dispatched[1].ok /\ ~dispatched[2].ok
    /\ dispatched[1].msgs # <<>> /\ dispatched[2].msgs # <<>>
    /\ Returned
    /\ result.err = "failed to write batch to Kafka"
    /\ result.n = Len(dispatched[1].msgs) + Len(dispatched[2].msgs)

\* ------------------------------------------------------------------------
\* the places where Replay looks at ctx: the top of the loop, the rate
\* wait, and after an error of Decoder.Read
CancelSites == {"top", "pace", "readerr"}

C13_FlushFailed ==
    /\ Returned /\ via = [how |-> "flush", site |-> "top"]
    /\ cancelled
    /\ result.err = "failed to write batch to Kafka"

\* ------------------------------------------------------------------------
\* C14: once ctx is cancelled during a Replay, Replay returns, whatever the
\* configuration: held at the rate wait for a tick that does not come, with
\* Loop set, over a container that is empty or has no record that passes the
\* filter, with a call of the producer under way.
C14_CancelTerminates == cancelled ~> Returned

\* a Replay with Loop set over a container none of whose records passes the
\* filter went through it more than once, was cancelled, and returned
C14_Witness ==
    /\ cfg.Loop /\ ~cfg.FindBytes.nil
    /\ hand.entries # <<>>
    /\ cycles >= 1
    /\ passed = <<>>
    /\ cancelled /\ Returned
    /\ result = [n |-> 0, err |-> "context canceled"]

\* a Replay was cancelled while it waited for the tick of the rate limiter
C14_HeldAtWait == pc = "pace" /\ cancelled

\* ------------------------------------------------------------------------
\* Replay returned the error of Decoder.Read
FramingErrorReturned == Returned /\ via.how = "error"

\* C15 as stated: when Replay returns because Decoder.Read gave an error
\* other than io.EOF, flushBatch was called first: the batch is empty, or the
\* last call of the producer was for this batch and failed.
C15_FramingErrorFlushes ==
    FramingErrorReturned =>
        \/ batch = <<>>
        \/ DispatchFailed /\ dispatched[Len(dispatched)].msgs = batch

\* What Replay does: with ctx not cancelled it returns the error of
\* Decoder.Read at once and the batch stays as it was, never handed to the
\* producer; with ctx cancelled it calls flushBatch and returns the error of
\* ctx, not that of Decoder.Read.
C15_FramingErrorNoFlush ==
    /\ FramingErrorReturned =>
          /\ ~cancelled
          /\ result.n = messageCount
          /\ result.err \notin {"nil", "context canceled", "failed to write batch to Kafka"}
          /\ ~DispatchFailed
          /\ Len(Concat(dispatched)) + Len(batch) = messageCount
    /\ (Returned /\ via.site = "readerr") => cancelled /\ result.err # "invalid key size"

\* the second record of the container is corrupt: Replay counted the first,
\* returned the framing error, and the first record was never sent
C15_LostBatch ==
    /\ FramingErrorReturned /\ ~cfg.DryRun
    /\ result = [n |-> 1, err |-> "invalid key size"]
    /\ Len(batch) = 1
    /\ dispatched = <<>>

\* ------------------------------------------------------------------------
\* C16: at the end of the file Replay calls flushBatch; with Loop set it then
\* resets the decoder and goes on with the first record (the cursor is at
\* the start of the data, the batch is empty, and the records read are the
\* container's records, cycle after cycle), with Loop off it returns nil,
\* every counted record handed to the producer unless the run is dry.
\* A Replay with Loop set never returns nil: it ends with the cancellation
\* error or with a failure.
C16_Looping ==
    /\ []((cfg.Loop /\ Returned) => result.err # "nil" /\ via.how # "end")
    /\ [](~cfg.Loop => cycles = 0)
    /\ []((Returned /\ via.how = "end") =>
            /\ ~cfg.Loop /\ via.site = "eof"
            /\ result = [n |-> messageCount, err |-> "nil"]
            /\ batch = <<>>
            /\ ~cfg.DryRun => Len(Concat(dispatched)) = messageCount)
    /\ [](LET want == Passing(hand.entries)
          IN  \A i \in 1..Len(passed) :
                 passed[i].Data = want[((i - 1) % Len(want)) + 1].data)
    /\ [][cycles' # cycles =>
             /\ cfg.Loop
             /\ cycles' = cycles + 1
             /\ pc' = "top"
             /\ pos' = dataStartOffset
             /\ batch' = <<>> /\ batchBytes' = 0
             /\ inflight' = <<>>]_vars

\* a Replay with Loop set read the container's two records, came to the end
\* of the file, read the first record again, and was cancelled
C16_Witness ==
    /\ cfg.Loop /\ cfg.FindBytes.nil
    /\ Len(hand.entries) = 2
    /\ cycles = 1
    /\ Len(passed) = 3
    /\ passed[3].Data = passed[1].Data /\ passed[2].Data # passed[1].Data
    /\ Returned /\ result.err = "context canceled"

\* a Replay with Loop off came to the end of the file and returned nil
C16_Completed ==
    /\ ~cfg.Loop /\ Returned /\ via = [how |-> "end", site |-> "eof"]
    /\ result.n = 2 /\ Len(dispatched) = 1

\* ------------------------------------------------------------------------
\* the container holds well-formed records only
AllWellFormed == WellFormedUpTo(Len(hand.entries))
\* the number of records of the container
N == Len(hand.entries)
\* Replay with Loop set and no filter, over a container of at least one
\* record, returned after it saw the cancellation in cycle cycles + 1, with
\* at least one record of that cycle counted
CancelledInCycle ==
    /\ cfg.Loop /\ cfg.FindBytes.nil
    /\ AllWellFormed /\ N >= 1
    /\ Returned /\ via.site \in CancelSites
    /\ messageCount > cycles * N

C17_FlushFailed ==
    /\ CancelledInCycle
    /\ N = 2 /\ cycles = 1
    /\ result = [n |-> 3, err |-> "failed to write batch to Kafka"]

\* ------------------------------------------------------------------------
\* C18: with Rate > 0 every record counted was held at the rate wait and
\* took one tick of the rate limiter before it was appended, in a dry run as
\* in any other; a record the filter leaves out is not held and takes no
\* tick; so the ticks taken are as many as the records counted, at every
\* moment and when Replay returns nil. With Rate = 0 there is no wait.
C18_Pacing ==
    /\ [](cfg.Rate > 0 =>
            /\ ticks = messageCount
            /\ ticks <= Len(passed)
            /\ (Returned /\ result.err = "nil") => ticks = result.n)
    /\ [](cfg.Rate = 0 => ticks = 0 /\ pc # "pace")
    /\ [](pc = "pace" => entry # NoEntry /\ ~filteredOut(cfg, entry.Data))
    /\ [][(cfg.Rate > 0 /\ messageCount' # messageCount) =>
             /\ pc = "pace"
             /\ messageCount' = messageCount + 1
             /\ ticks' = ticks + 1
             /\ Len(batch') = Len(batch) + 1 \/ batch' = <<>> \/ pc' = "dispatch"]_vars
    /\ [][ticks' # ticks => messageCount' = messageCount + 1]_vars

\* a paced dry run with a filter went through a container of two records,
\* one of which the filter left out: one tick, one record counted
C18_Witness ==
    /\ cfg.Rate > 0 /\ cfg.DryRun /\ ~cfg.FindBytes.nil /\ ~cfg.Loop
    /\ Len(hand.entries) = 2
    /\ Returned /\ result = [n |-> 1, err |-> "nil"]
    /\ ticks = 1

\* ------------------------------------------------------------------------
RECURSIVE PayloadBytes(_)
\* the payload bytes of the messages of a batch
PayloadBytes(msgs) ==
    IF msgs = <<>> THEN 0 ELSE BLen(Head(msgs).Value) + PayloadBytes(Tail(msgs))
\* the batches Producer.WriteMessages was called with, returned or not
Handed == [i \in 1..Len(dispatched) |-> dispatched[i].msgs] \o inflight

C19_FlushOnBytes ==
    /\ BatchSize > 1
    /\ \E i \in 1..Len(Handed) :
          Len(Handed[i]) = 1 /\ PayloadBytes(Handed[i]) >= BatchBytes
    /\ \E i \in 1..Len(Handed) : Len(Handed[i]) = 1 /\ PayloadBytes(Handed[i]) < BatchBytes

\* ------------------------------------------------------------------------
\* C20: in a Replay at most one call of Producer.WriteMessages is under way,
\* and it is under way exactly while Replay is inside flushBatch: no call
\* starts before the one before has returned, and while a call is under way
\* Decoder.Read is not called and no record is appended or counted. In a
\* Record at most one message is being written, exactly while Record is
\* inside Encoder.Write: the consumer is not polled until the write has
\* returned.
C20_OneInFlight ==
    /\ [](Len(inflight) <= 1)
    /\ [](inflight # <<>> <=> pc = "dispatch")
    /\ [](inflight # <<>> => inflight[1] = batch /\ batch # <<>>)
    /\ [][inflight # <<>> =>
             /\ clock' = clock
             /\ messageCount' = messageCount
             /\ passed' = passed
             /\ Len(inflight') <= 1
             /\ inflight' # <<>> => Len(dispatched') = Len(dispatched) + 1 \/ inflight' = inflight]_vars
    /\ [](Len(writing) <= 1)
    /\ [](writing # <<>> <=> rpc = "write")
    /\ [][writing # <<>> => srcPos' = srcPos /\ skipped' = skipped /\ Len(writing') <= 1]_vars
    /\ [][srcPos' # srcPos => rpc = "poll" /\ writing = <<>>]_vars

\* a second call of Producer.WriteMessages is under way, the first one
\* having returned; the decoder has been read twice
C20_Witness ==
    /\ pc = "dispatch"
    /\ Len(inflight) = 1
    /\ Len(dispatched) = 1 /\ dispatched[1].ok
    /\ inflight[1] # dispatched[1].msgs
    /\ messageCount = 2

\* a Record is writing its second message
C20_RecordWriting ==
    /\ rpc = "write"
    /\ Len(writing) = 1
    /\ recorded = 1
    /\ srcPos >= 2

\* ========================================================================
\* Properties of the record
\* ========================================================================
RECURSIVE EntryBytes(_)
\* the bytes the entries of the successful writes take in the container
EntryBytes(ws) ==
    IF ws = <<>> THEN 0
    ELSE (IF Head(ws).ok
          THEN TimestampSize + KeySizeFieldSize + SizeFieldSize
               + (IF Head(ws).rec.key.nil THEN 0 ELSE BLen(Head(ws).rec.key.bytes))
               + BLen(Head(ws).rec.data)
          ELSE 0) + EntryBytes(Tail(ws))
\* the consumer has at least rcfg.Limit messages that pass the filter, and
\* no error before the last of them
OffersLimit ==
    /\ rcfg.Limit > 0
    /\ \E n \in 1..Len(stream) :
          /\ \A i \in 1..n : stream[i].kind # "error"
          /\ Cardinality({i \in 1..n : /\ stream[i].kind = "message"
                                        /\ found(stream[i].rec.data, rcfg.FindBytes)})
               >= rcfg.Limit

C22_NoDataYet ==
    /\ [][(rpc = "poll" /\ ~cancelled' /\ NextYield.kind = "nodata") =>
             /\ rpc' = "top"
             /\ UNCHANGED <<recorded, skipped, totalBytes, file, writes, writing, rresult,
                            encState>>]_vars
    /\ [][(rpc = "top" /\ ~cancelled /\ ~limitReached(rcfg, recorded)) =>
             rpc' = "poll" \/ cancelled']_vars
    /\ [](RecordReturned =>
            \/ rresult.err = "nil" /\ limitReached(rcfg, recorded)
            \/ rresult.err = "context canceled" /\ cancelled
            \/ rresult.err = "consumer error" /\ srcPos >= 1 /\ stream[srcPos].kind = "error"
            \/ rresult.err = "write error" /\ writes # <<>> /\ ~writes[Len(writes)].ok)

\* the consumer answered io.EOF twice, then gave a message; Record wrote it
C22_Witness ==
    /\ Len(stream) = 3
    /\ stream[1] = NoDataYet /\ stream[2] = NoDataYet /\ stream[3].kind = "message"
    /\ srcPos = 3
    /\ recorded = 1
    /\ found(stream[3].rec.data, rcfg.FindBytes)

\* the consumer has nothing more to give and Record keeps polling
C22_KeepsPolling ==
    /\ srcPos = Len(stream) /\ Len(stream) = 1 /\ stream[1] = NoDataYet
    /\ rpc = "poll" /\ ~cancelled

C23_BlockedAtPoll == rpc = "poll" /\ cancelled /\ recorded = 1

\* C25: flushBatch on an empty batch does nothing: no call of
\* Producer.WriteMessages, returned or still running, was handed zero
\* messages, on whatever path flushBatch was called (end of the file, the
\* restart of the loop, also cycle after cycle over a container that is
\* empty or has nothing the filter lets pass, cancellation, the last flush);
\* so there are never more calls than messages counted.
C25_NoEmptyDispatch ==
    /\ \A i \in 1..Len(Handed) : Len(Handed[i]) > 0
    /\ Len(Handed) <= messageCount

\* the loop has restarted over a container of which nothing went into the
\* batch, outside a dry run, and the producer has not been called
C25_Witness ==
    /\ cycles >= 1
    /\ ~cfg.DryRun
    /\ decState = "open"
    /\ Passing(hand.entries) = <<>>
    /\ messageCount = 0
    /\ Handed = <<>>

\* Replay has returned nil at the end of an empty container, outside a dry
\* run, and the producer has not been called
C25_EmptyAtEnd ==
    /\ Returned
    /\ via.site = "eof"
    /\ result = [n |-> 0, err |-> "nil"]
    /\ ~cfg.DryRun
    /\ Handed = <<>>

\* the messages msgs are the records want, in their order, c times over
EachCycle(msgs, want, c) ==
    /\ Len(msgs) = c * Len(want)
    /\ \A i \in 1..Len(msgs) : msgs[i].Value = want[((i - 1) % Len(want)) + 1].data

C26_DryCycle ==
    /\ cfg.Loop /\ cfg.DryRun
    /\ cycles = 1 /\ pc = "top" /\ pos = dataStartOffset
    /\ Len(Passing(hand.entries)) = 2
    /\ batch = <<>> /\ messageCount = 2
    /\ dispatched = <<>>

\* ------------------------------------------------------------------------
\* the Write that this step made has failed
WriteFailed == Len(writes') = Len(writes) + 1 /\ ~writes'[Len(writes')].ok

\* C28: a Write that fails leaves the running counter as it was: TotalBytes
\* keeps its value, and the number returned with the error is the size of
\* the fields written before the one the sink rejected, 0 (timestamp), 8
\* (key size), 16 (payload size), 24 (key) or 24 + len(key) (payload), which
\* is what the sink has grown by. So with a failed Write at its end
\* TotalBytes is still 20 plus what the Writes before it returned.
C28_FailedWrite ==
    /\ [][WriteFailed =>
             /\ totalBytes' = totalBytes
             /\ writes'[Len(writes')].ret \in
                   {0, 8, 16, 24, 24 + KeyLen(writes'[Len(writes')].rec.key)}
             /\ writes'[Len(writes')].ret = BLen(file') - BLen(file)]_vars
    /\ []((writes # <<>> /\ ~writes[Len(writes)].ok) =>
             /\ TotalBytes = 20 + SumRet(SubSeq(writes, 1, Len(writes) - 1))
             /\ BLen(file) = TotalBytes + writes[Len(writes)].ret)

\* after a Write that took 45 bytes, a Write of a record with a key failed
\* at the payload: it returned 24 + len(key), and TotalBytes is still 65
C28_Witness ==
    /\ Len(writes) = 2
    /\ writes[1].ok /\ writes[1].ret = 45
    /\ ~writes[2].ok
    /\ writes[2].rec.key = Key(User123)
    /\ writes[2].ret = 32
    /\ TotalBytes = 65
    /\ BLen(file) = 97

\* the first Write failed at the timestamp: it returned 0, and the sink
\* holds the header alone
C28_FailedAtTimestamp ==
    /\ Len(writes) = 1 /\ ~writes[1].ok /\ writes[1].ret = 0
    /\ TotalBytes = 20 /\ BLen(file) = 20

\* ------------------------------------------------------------------------
\* C29: for every rate > 0 given to Replay the interval, one second
\* (1,000,000,000 ns) divided by the rate, is strictly positive, so the
\* ticker is created with it: no positive rate gives a zero interval, and
\* Replay goes on into its loop.
C29_IntervalPositive ==
    (cfg.Rate > 0 /\ pc # "idle") =>
        /\ interval(cfg.Rate) > 0
        /\ rateLimiter = NewTicker(interval(cfg.Rate))
        /\ pc # "panic"

\* what Replay does: up to 1,000,000,000 records a second the interval is at
\* least one nanosecond, rate intervals fit into a second, and the ticker is
\* created; above it the interval is zero, time.NewTicker panics and there
\* is no ticker
C29_ZeroAboveOnePerNanosecond ==
    (cfg.Rate > 0 /\ pc # "idle") =>
        IF cfg.Rate <= Second
        THEN /\ interval(cfg.Rate) >= 1
             /\ interval(cfg.Rate) * cfg.Rate <= Second
             /\ rateLimiter = NewTicker(interval(cfg.Rate))
             /\ pc # "panic"
        ELSE /\ interval(cfg.Rate) = 0
             /\ rateLimiter = NoTicker
             /\ pc = "panic"

\* Replay was given 1,000,000,001 records a second and has panicked in
\* time.NewTicker
C29_Panic ==
    /\ cfg.Rate = 1000000001
    /\ interval(cfg.Rate) = 0
    /\ pc = "panic"
    /\ messageCount = 0

\* ------------------------------------------------------------------------
RECURSIVE DecodeAll(_, _)
\* what a decoder that keeps the timestamps reads from the current-version
\* container src, from position p on: the entries, how the reading ended,
\* and where
DecodeAll(src, p) ==
    LET r == DecodeRead(src, p, ProtocolVersion, TRUE, Time(0, 0)) IN
    IF r.kind # "entry" THEN [entries |-> <<>>, end |-> r.err, pos |-> r.pos]
    ELSE LET rest == DecodeAll(src, r.pos)
         IN  [rest EXCEPT !.entries = <<r.entry>> \o @]

\* Record has returned nil (the limit) or the cancellation error, and none
\* of its writes failed
EndedClean ==
    /\ RecordReturned
    /\ rresult.err \in {"nil", "context canceled"}
    /\ AllOk(writes)

C30_CancelledInWrite == rpc = "write" /\ cancelled /\ writing # <<>>

C24_NoHandleLeftOpen ==
    cpc = "returned" =>
        \A h \in Handles :
            /\ h \in opened => closes[h] >= 1
            /\ h \notin opened => closes[h] = 0
            /\ closes[h] > 1 =>
                  /\ closes[h] = 2
                  /\ h = "fileWriter"
                  /\ command = "record"
                  /\ cerr \in RecordErrors \ {"encoder error"}

\* a record command has returned and Close has reached its output file twice
C24_ClosedTwice ==
    /\ cpc = "returned"
    /\ command = "record"
    /\ cerr = "nil"
    /\ closes["fileWriter"] = 2
    /\ closes["consumer"] = 1


\* ========================================================================
\* Properties of the consumer
\* ========================================================================
\* something still refers to the batch b: it is c.batch, the goroutine
\* that fetched it holds it at its select, or it waits in the batchChan of
\* the call that is at its select
Referenced(b) ==
    \/ cbatch = b
    \/ \E i \in 1..MaxCalls : fetch[i].at = "select" /\ fetch[i].batch = b
    \/ rnm = "select" /\ batchChan[call] = <<b>>

\* C27: no batch is leaked by ReadNextMessage: however the goroutine that
\* fetches and the cancellation of ctx interleave, every batch ReadBatch
\* returned is closed or something still refers to it; none is left open
\* with no reference.
C27_NoBatchLeaked ==
    \A b \in 1..Len(batches) : batches[b].open => Referenced(b)

\* what ReadNextMessage does: a batch is left open with no reference only
\* once ctx is done, and then it lies in the batchChan of a call that has
\* returned ctx.Err()
C27_LeakOnlyOnCancel ==
    \A b \in 1..Len(batches) :
        (batches[b].open /\ ~Referenced(b)) =>
            /\ ctxDone
            /\ \E i \in 1..Len(returns) :
                  batchChan[i] = <<b>> /\ returns[i] = "context canceled"

\* ReadNextMessage has returned ctx.Err(), its goroutine has ended, and the
\* batch the goroutine fetched lies open in batchChan
C27_Leaked ==
    /\ rnm = "idle" /\ call = 1
    /\ returns = <<"context canceled">>
    /\ fetch[1].at = "exit"
    /\ batchChan[1] = <<1>>
    /\ batches[1].open
    /\ cbatch = NoBatch
====
